---- MODULE Spec2Model ----
(***************************************************************************)
(* Loan ledgers of the bookkeeping backend: the Daily, Weekly and Monthly  *)
(* controllers over their MongoDB collections.                             *)
(*                                                                         *)
(* Encoding of JavaScript values.  Numbers are integers.  A numeric field  *)
(* that is undefined, null or 0 is written 0 (all three are falsy and no   *)
(* handler tells them apart); a string field that is undefined or empty is *)
(* written "".  Dates are day numbers: 0 is null/undefined, -1 is a string *)
(* that does not parse (Invalid Date), a positive number is a valid date.  *)
(* A collection is a function from the ids of its stored documents to the  *)
(* documents.                                                              *)
(***************************************************************************)
EXTENDS Integers, Sequences, FiniteSets, TLC

VARIABLES
    daily,      \* the Daily collection
    monthly,    \* the Monthly collection
    weekly,     \* the Weekly collection
    markPaid,   \* history: per plan, the ids on which mark-paid has succeeded
    issued,     \* history: per numbered plan, the highest loanNumber ever assigned
    inflight,   \* the requests that have read the database and not yet written
    page,       \* the state of the loan detail page open in the browser
    resp        \* the last response sent: [op, id, code], and for a creation its request

vars == <<daily, monthly, weekly, markPaid, issued, inflight, page, resp>>

(***************************************************************************)
(* Bounds of the model.                                                    *)
(***************************************************************************)
MaxDays == 2        \* largest numberOfDays of a Daily creation request
MaxIn == 2          \* longest installments array of a reconciliation request
MaxPeriod == 2      \* largest period named by a Weekly/Monthly request
MaxCollected == 6   \* mark-paid is not followed beyond this collectedAmount
MaxLoans == 3       \* most documents a collection holds
MaxInflight == 2    \* most requests between their read and their write

LoanIds == 1..MaxLoans  \* well-formed (24 character) ids
BadId == 0          \* an id whose length is not 24
Now == 2            \* the server clock, new Date()
Today == 1          \* a date supplied by the client

Null == 0

SeqsUpTo(S, n) == UNION {[1..k -> S] : k \in 0..n}

RECURSIVE SumPaid(_)
\* forEach(installment => if (installment.status === "paid") sum += installment.amount)
SumPaid(list) ==
    IF list = <<>> THEN 0
    ELSE (IF list[1].status = "paid" THEN list[1].amount ELSE 0) + SumPaid(Tail(list))

EveryPaid(list) == \A i \in 1..Len(list) : list[i].status = "paid"

Max(a, b) == IF a >= b THEN a ELSE b

\* the _id a collection gives a new document: none that is stored
NewId(coll) == CHOOSE id \in LoanIds \ DOMAIN coll : \A j \in LoanIds \ DOMAIN coll : id <= j

\* The last response, with one history flag: whether the request turned a stored
\* paid installment into one that is not paid.
Response(op, id, code) == [op |-> op, id |-> id, code |-> code, reverted |-> FALSE]

Reverted(old, new) ==
    \E i \in 1..Len(old), j \in 1..Len(new) :
        /\ old[i].status = "paid"
        /\ new[j].period = old[i].period
        /\ new[j].status # "paid"

UpdateResponse(op, id, code, old, new) ==
    [op |-> op, id |-> id, code |-> code, reverted |-> Reverted(old, new)]

\* The response to a creation request, with the request body it answers.
CreateResponse(op, id, code, b) ==
    [op |-> op, id |-> id, code |-> code, reverted |-> FALSE, body |-> b]

\* a generator that hands out the highest stored number again
getNextLoanNumberRepeated(coll) ==
    IF DOMAIN coll = {} THEN 1
    ELSE CHOOSE n \in {coll[i].loanNumber : i \in DOMAIN coll} :
              \A i \in DOMAIN coll : coll[i].loanNumber <= n

(***************************************************************************)
(* getNextLoanNumber: 1 + the highest loanNumber stored, or 1.             *)
(***************************************************************************)
getNextLoanNumber(coll) ==
    IF DOMAIN coll = {} THEN 1
    ELSE (CHOOSE n \in {coll[i].loanNumber : i \in DOMAIN coll} :
              \A i \in DOMAIN coll : coll[i].loanNumber <= n) + 1

(***************************************************************************)
(* Daily ledger                                                            *)
(***************************************************************************)
DailyBase ==
    [customerName |-> "n", phoneDigits |-> 0, amountGiven |-> 1,
     expectedProfit |-> 1, profitPercentage |-> 1, totalLoanAmount |-> 2,
     numberOfDays |-> 1, amountPerDay |-> 1, issuingDate |-> 1]

\* Creation requests: the base request with the schedule varied, and the base
\* request with one field missing, zero, negative or malformed.
DailyCreateBodies ==
    {[DailyBase EXCEPT !.numberOfDays = n, !.amountPerDay = a, !.totalLoanAmount = t] :
        n \in 1..MaxDays, a \in {1, 2}, t \in {2, 3}}
    \cup {[DailyBase EXCEPT !.customerName = ""]}
    \cup {[DailyBase EXCEPT !.amountGiven = v] : v \in {0, -1}}
    \cup {[DailyBase EXCEPT !.expectedProfit = v] : v \in {0, -1}}
    \cup {[DailyBase EXCEPT !.profitPercentage = v] : v \in {0, -1}}
    \cup {[DailyBase EXCEPT !.totalLoanAmount = v] : v \in {0, -1}}
    \cup {[DailyBase EXCEPT !.numberOfDays = v] : v \in {0, -1}}
    \cup {[DailyBase EXCEPT !.amountPerDay = v] : v \in {0, -1}}
    \cup {[DailyBase EXCEPT !.issuingDate = v] : v \in {0, -1}}
    \cup {[DailyBase EXCEPT !.phoneDigits = v] : v \in {9, 10}}

\* the validation of createDailyLoan: the HTTP status it ends with, 0 when it passes
createDailyLoanValidation(b) ==
    IF \/ b.customerName = ""
       \/ b.amountGiven = 0
       \/ b.expectedProfit = 0
       \/ b.profitPercentage = 0
       \/ b.totalLoanAmount = 0
       \/ b.numberOfDays = 0
       \/ b.amountPerDay = 0
       \/ b.issuingDate = 0
    THEN 400
    ELSE IF b.phoneDigits # 0 /\ b.phoneDigits # 10 THEN 400
    ELSE IF b.issuingDate = -1 THEN 400
    ELSE 0

\* a schedule whose periods count from 0
DailyInstallmentsFromZero(b) ==
    [i \in 1..Max(b.numberOfDays, 0) |->
        [period |-> i - 1, date |-> b.issuingDate + i, amount |-> b.amountPerDay,
         status |-> "pending", paidOn |-> Null]]

\* for (let i = 1; i <= numberOfDays; i++) installments.push({...})
DailyInstallments(b) ==
    [i \in 1..Max(b.numberOfDays, 0) |->
        [period |-> i, date |-> b.issuingDate + i, amount |-> b.amountPerDay,
         status |-> "pending", paidOn |-> Null]]

dailyLoanData(b, loanNumber) ==
    [loanNumber |-> loanNumber,
     loanAmount |-> b.totalLoanAmount,
     amountGiven |-> b.amountGiven,
     expectedProfit |-> b.expectedProfit,
     totalProfit |-> 0,
     numberOfDays |-> b.numberOfDays,
     amountPerDay |-> b.amountPerDay,
     collectedAmount |-> 0,
     remainingAmount |-> b.totalLoanAmount,
     status |-> "active",
     installments |-> DailyInstallments(b)]

createDailyLoan(b) ==
    /\ LoanIds \ DOMAIN daily # {}
    /\ IF createDailyLoanValidation(b) # 0
       THEN /\ resp' = CreateResponse("createDailyLoan", BadId, createDailyLoanValidation(b), b)
            /\ UNCHANGED <<daily, issued>>
       ELSE LET id == NewId(daily)
            IN  /\ daily' = [i \in DOMAIN daily \cup {id} |->
                                IF i = id THEN dailyLoanData(b, getNextLoanNumber(daily))
                                ELSE daily[i]]
                /\ issued' = [issued EXCEPT !.daily = Max(@, getNextLoanNumber(daily))]
                /\ resp' = CreateResponse("createDailyLoan", id, 201, b)
    /\ UNCHANGED <<monthly, weekly, markPaid, inflight, page>>

\* Entries of a Daily reconciliation request.
DailyGoodEntries ==
    {[period |-> p, status |-> "pending", paidOn |-> Null] : p \in 1..(MaxDays + 1)}
    \cup {[period |-> p, status |-> "paid", paidOn |-> d] :
            p \in 1..(MaxDays + 1), d \in {Null, Today}}

DailyBadEntries ==
    {[period |-> 0, status |-> "paid", paidOn |-> Null],
     [period |-> 1, status |-> "", paidOn |-> Null],
     [period |-> 1, status |-> "missed", paidOn |-> Null]}

DailyPaid1 == [period |-> 1, status |-> "paid", paidOn |-> Null]

\* Request bodies: every list of well-formed entries, and lists with one
\* malformed entry first, last or alone.
DailyBodies ==
    SeqsUpTo(DailyGoodEntries, MaxIn)
    \cup {<<e>> : e \in DailyBadEntries}
    \cup {<<e, DailyPaid1>> : e \in DailyBadEntries}
    \cup {<<DailyPaid1, e>> : e \in DailyBadEntries}

\* the forEach that validates the entries and fills installmentUpdates
DailyEntryValid(e) ==
    /\ ~(e.period = 0 \/ e.status = "")
    /\ e.status \in {"paid", "pending"}

\* installmentUpdates.get(period): the last entry set for the period, if any
HasUpdate(body, period) == \E i \in 1..Len(body) : body[i].period = period

LastUpdate(body, period) ==
    body[CHOOSE i \in 1..Len(body) :
            /\ body[i].period = period
            /\ \A j \in (i + 1)..Len(body) : body[j].period # period]

\* an update that resets to pending every installment the request does not name
DailyUpdatedInstallmentReset(inst, body) ==
    IF HasUpdate(body, inst.period)
    THEN LET update == LastUpdate(body, inst.period)
         IN  [inst EXCEPT
                !.status = update.status,
                !.paidOn = IF update.status = "paid"
                           THEN (IF update.paidOn # Null THEN update.paidOn ELSE Now)
                           ELSE Null]
    ELSE [inst EXCEPT !.status = "pending", !.paidOn = Null]

\* updatedInstallments.forEach: an installment with an update takes its status and
\* paidOn, one without is left as it is
DailyUpdatedInstallment(inst, body) ==
    IF HasUpdate(body, inst.period)
    THEN LET update == LastUpdate(body, inst.period)
         IN  [inst EXCEPT
                !.status = update.status,
                !.paidOn = IF update.status = "paid"
                           THEN (IF update.paidOn # Null THEN update.paidOn ELSE Now)
                           ELSE Null]
    ELSE inst

\* a collected total that counts every installment, whatever its status
DailyCollectedAll(loan, list) ==
    SumPaid([i \in 1..Len(list) |-> [list[i] EXCEPT !.status = "paid"]])

\* a collected total that starts from the stored total instead of 0
DailyCollectedRunning(loan, list) == loan.collectedAmount + SumPaid(list)

\* let collectedAmount = 0; forEach paid installment: collectedAmount += amount
DailyCollected(loan, list) == SumPaid(list)

\* the document updateDailyInstallment writes for a stored loan and valid entries
DailyReconciled(loan, body) ==
    LET updatedInstallments ==
            [i \in 1..Len(loan.installments) |->
                DailyUpdatedInstallment(loan.installments[i], body)]
        collectedAmount == DailyCollected(loan, updatedInstallments)
        remainingAmount == loan.loanAmount - collectedAmount
    IN  [loan EXCEPT
            !.installments = updatedInstallments,
            !.collectedAmount = collectedAmount,
            !.remainingAmount = remainingAmount,
            !.totalProfit = Max(0, collectedAmount - loan.amountGiven),
            !.status = IF remainingAmount <= 0 THEN "completed" ELSE "active"]

\* Every ApiError thrown inside the try block is caught and re-thrown as 500:
\* the catch block only tells CastError apart.
updateDailyInstallmentCode(coll, id, body) ==
    IF id = BadId THEN 500
    ELSE IF id \notin DOMAIN coll THEN 500
    ELSE IF \E i \in 1..Len(body) : ~DailyEntryValid(body[i]) THEN 500
    ELSE 200

updateDailyInstallment(id, body) ==
    LET code == updateDailyInstallmentCode(daily, id, body)
    IN  /\ IF code = 200
           THEN /\ daily' = [daily EXCEPT ![id] = DailyReconciled(daily[id], body)]
                /\ resp' = UpdateResponse("updateDailyInstallment", id, code,
                                daily[id].installments, daily'[id].installments)
           ELSE /\ resp' = Response("updateDailyInstallment", id, code)
                /\ UNCHANGED daily
        /\ UNCHANGED <<monthly, weekly, markPaid, issued, inflight, page>>

deleteDailyLoan(id) ==
    /\ IF id # BadId /\ id \in DOMAIN daily
       THEN /\ daily' = [i \in DOMAIN daily \ {id} |-> daily[i]]
            /\ resp' = Response("deleteDailyLoan", id, 200)
       ELSE /\ resp' = Response("deleteDailyLoan", id, 500)
            /\ UNCHANGED daily
    /\ UNCHANGED <<monthly, weekly, markPaid, issued, inflight, page>>

(***************************************************************************)
(* Monthly ledger                                                          *)
(***************************************************************************)
LoanBase ==
    [customerName |-> "n", phoneDigits |-> 0, amountGiven |-> 1,
     totalLoanAmount |-> 2, interestAmount |-> 1, interestPercentage |-> 1,
     issuingDate |-> 1]

\* Weekly and Monthly creation requests: the base request, and the base request
\* with one field missing, zero, negative or malformed.
LoanCreateBodies ==
    {LoanBase}
    \cup {[LoanBase EXCEPT !.customerName = ""]}
    \cup {[LoanBase EXCEPT !.amountGiven = v] : v \in {0, -1}}
    \cup {[LoanBase EXCEPT !.totalLoanAmount = v] : v \in {0, -1}}
    \cup {[LoanBase EXCEPT !.interestAmount = v] : v \in {0, -1}}
    \cup {[LoanBase EXCEPT !.interestPercentage = v] : v \in {0, -1}}
    \cup {[LoanBase EXCEPT !.issuingDate = v] : v \in {0, -1}}
    \cup {[LoanBase EXCEPT !.phoneDigits = v] : v \in {9, 10}}

\* the validation shared by createMonthlyLoan and createWeeklyLoan
createLoanValidation(b) ==
    IF \/ b.customerName = ""
       \/ b.amountGiven = 0
       \/ b.totalLoanAmount = 0
       \/ b.interestAmount = 0
       \/ b.interestPercentage = 0
       \/ b.issuingDate = 0
    THEN 400
    ELSE IF \/ b.amountGiven <= 0
            \/ b.totalLoanAmount <= 0
            \/ b.interestAmount < 0
            \/ b.interestPercentage < 0
    THEN 400
    ELSE IF b.issuingDate = -1 THEN 400
    ELSE IF b.phoneDigits # 0 /\ b.phoneDigits < 10 THEN 400
    ELSE 0

monthlyLoanData(b, loanNumber) ==
    [loanNumber |-> loanNumber,
     loanAmount |-> b.totalLoanAmount,
     amountGiven |-> b.amountGiven,
     issuingDate |-> b.issuingDate,
     interestAmount |-> b.interestAmount,
     profitAmount |-> b.interestAmount,
     collectedAmount |-> 0,
     remainingAmount |-> b.totalLoanAmount,
     installments |-> <<>>,
     status |-> "active"]

createMonthlyLoan(b) ==
    /\ LoanIds \ DOMAIN monthly # {}
    /\ IF createLoanValidation(b) # 0
       THEN /\ resp' = CreateResponse("createMonthlyLoan", BadId, createLoanValidation(b), b)
            /\ UNCHANGED <<monthly, markPaid, issued>>
       ELSE LET id == NewId(monthly)
            IN  /\ monthly' = [i \in DOMAIN monthly \cup {id} |->
                                  IF i = id THEN monthlyLoanData(b, getNextLoanNumber(monthly))
                                  ELSE monthly[i]]
                /\ markPaid' = [markPaid EXCEPT !.monthly = @ \ {id}]
                /\ issued' = [issued EXCEPT !.monthly = Max(@, getNextLoanNumber(monthly))]
                /\ resp' = CreateResponse("createMonthlyLoan", id, 201, b)
    /\ UNCHANGED <<daily, weekly, inflight, page>>

Amounts == {1, 2}

\* Entries of a Weekly/Monthly reconciliation request.
LoanGoodEntries ==
    {[period |-> p, date |-> Today, amount |-> a, status |-> s, paidOn |-> Null] :
        p \in 1..MaxPeriod, a \in Amounts, s \in {"", "paid", "pending", "missed"}}
    \cup {[period |-> p, date |-> Today, amount |-> a, status |-> "paid", paidOn |-> Today] :
            p \in 1..MaxPeriod, a \in Amounts}

LoanBadEntries ==
    {[period |-> 0, date |-> Today, amount |-> 1, status |-> "paid", paidOn |-> Null],
     [period |-> 1, date |-> 0, amount |-> 1, status |-> "paid", paidOn |-> Null],
     [period |-> 1, date |-> -1, amount |-> 1, status |-> "paid", paidOn |-> Null],
     [period |-> 1, date |-> Today, amount |-> 0, status |-> "paid", paidOn |-> Null],
     [period |-> 1, date |-> Today, amount |-> -1, status |-> "paid", paidOn |-> Null],
     [period |-> 1, date |-> Today, amount |-> 1, status |-> "bogus", paidOn |-> Null]}

LoanPaid1 == [period |-> 1, date |-> Today, amount |-> 1, status |-> "paid", paidOn |-> Null]

\* Request bodies: every list of well-formed entries, and lists with one
\* malformed entry first, last or alone.
LoanBodies ==
    SeqsUpTo(LoanGoodEntries, MaxIn)
    \cup {<<e>> : e \in LoanBadEntries}
    \cup {<<e, LoanPaid1>> : e \in LoanBadEntries}
    \cup {<<LoanPaid1, e>> : e \in LoanBadEntries}

\* the checks the forEach of updateMonthlyInstallment / updateWeeklyInstallment
\* makes on one entry
LoanEntryValid(e) ==
    /\ ~(e.period = 0 \/ e.date = 0 \/ e.amount = 0)
    /\ ~(e.status # "" /\ e.status \notin {"paid", "missed", "pending"})
    /\ ~(e.amount <= 0)
    /\ e.date # -1

\* existingInstallmentsMap.get(period): Map.set keeps the last stored installment
\* of a period
Existing(list, period) == \E i \in 1..Len(list) : list[i].period = period

ExistingStatus(list, period) ==
    list[CHOOSE i \in 1..Len(list) :
            /\ list[i].period = period
            /\ \A j \in (i + 1)..Len(list) : list[j].period # period].status

\* paidOn: status === "paid" && paidOn ? new Date(paidOn) : status === "paid" ? new Date() : null
EntryPaidOn(e) ==
    IF e.status = "paid" /\ e.paidOn # Null THEN e.paidOn
    ELSE IF e.status = "paid" THEN Now
    ELSE Null

\* updatedInstallment when the period is stored, newInstallment when it is not
LoanUpdatedInstallment(stored, e) ==
    [period |-> e.period,
     date |-> e.date,
     amount |-> e.amount,
     status |-> IF e.status # "" THEN e.status
                ELSE IF Existing(stored, e.period) THEN ExistingStatus(stored, e.period)
                ELSE "pending",
     paidOn |-> EntryPaidOn(e)]

LoanUpdatedInstallments(stored, body) ==
    [i \in 1..Len(body) |-> LoanUpdatedInstallment(stored, body[i])]

\* isMarkedAsPaid = monthlyLoan.collectedAmount >= monthlyLoan.loanAmount
MonthlyIsMarkedAsPaid(loan) == loan.collectedAmount >= loan.loanAmount

\* a profit that accrues on the stored profit instead of the base interest
MonthlyProfitRunning(loan, list) == loan.profitAmount + SumPaid(list)

\* totalProfitAmount: the base interest plus the paid installments
MonthlyProfit(loan, list) == loan.interestAmount + SumPaid(list)

\* collectedAmount: the paid installments, plus the loan amount if marked as paid
MonthlyCollected(loan, list) ==
    SumPaid(list) + (IF MonthlyIsMarkedAsPaid(loan) THEN loan.loanAmount ELSE 0)

\* a remaining amount recomputed from the collected amount, as the Daily plan does
MonthlyRemainingRecomputed(loan, list) == loan.loanAmount - MonthlyCollected(loan, list)

\* remainingAmount = monthlyLoan.remainingAmount
MonthlyRemaining(loan, list) == loan.remainingAmount

MonthlyStatus(loan, list) ==
    IF MonthlyIsMarkedAsPaid(loan) /\ EveryPaid(list) THEN "completed" ELSE "active"

\* the document updateMonthlyInstallment writes for a stored loan and valid entries
MonthlyReconciled(loan, body) ==
    LET updatedInstallments == LoanUpdatedInstallments(loan.installments, body)
    IN  [loan EXCEPT
            !.installments = updatedInstallments,
            !.profitAmount = MonthlyProfit(loan, updatedInstallments),
            !.collectedAmount = MonthlyCollected(loan, updatedInstallments),
            !.remainingAmount = MonthlyRemaining(loan, updatedInstallments),
            !.status = MonthlyStatus(loan, updatedInstallments)]

updateLoanInstallmentCode(coll, id, body) ==
    IF id = BadId THEN 400
    ELSE IF Len(body) = 0 THEN 400
    ELSE IF id \notin DOMAIN coll THEN 404
    ELSE IF \E i \in 1..Len(body) : ~LoanEntryValid(body[i]) THEN 400
    ELSE 200

updateMonthlyInstallment(id, body) ==
    LET code == updateLoanInstallmentCode(monthly, id, body)
    IN  /\ IF code = 200
           THEN /\ monthly' = [monthly EXCEPT ![id] = MonthlyReconciled(monthly[id], body)]
                /\ resp' = UpdateResponse("updateMonthlyInstallment", id, code,
                                monthly[id].installments, monthly'[id].installments)
           ELSE /\ resp' = Response("updateMonthlyInstallment", id, code)
                /\ UNCHANGED monthly
        /\ UNCHANGED <<daily, weekly, markPaid, issued, inflight, page>>

\* a mark-paid that does not look at the status of the loan
markLoanAsPaidCodeAnyStatus(coll, id) ==
    IF id = BadId THEN 400
    ELSE IF id \notin DOMAIN coll THEN 404
    ELSE 200

\* the checks of markMonthlyLoanAsPaid and markWeeklyLoanAsPaid; both catch blocks
\* re-throw an ApiError as it is
markLoanAsPaidCode(coll, id) ==
    IF id = BadId THEN 400
    ELSE IF id \notin DOMAIN coll THEN 404
    ELSE IF coll[id].status = "completed" THEN 400
    ELSE 200

\* a mark-paid that sets collectedAmount to the loan amount, as the Weekly plan does
MonthlyMarkedPaidSet(loan) ==
    [loan EXCEPT
        !.collectedAmount = loan.loanAmount,
        !.remainingAmount = 0,
        !.status = IF EveryPaid(loan.installments) THEN "completed" ELSE "active"]

\* the document markMonthlyLoanAsPaid writes
MonthlyMarkedPaid(loan) ==
    [loan EXCEPT
        !.collectedAmount = loan.collectedAmount + loan.loanAmount,
        !.remainingAmount = 0,
        !.status = IF EveryPaid(loan.installments) THEN "completed" ELSE "active"]

markMonthlyLoanAsPaid(id) ==
    LET code == markLoanAsPaidCode(monthly, id)
    IN  /\ resp' = Response("markMonthlyLoanAsPaid", id, code)
        /\ IF code = 200
           THEN /\ monthly' = [monthly EXCEPT ![id] = MonthlyMarkedPaid(monthly[id])]
                /\ markPaid' = [markPaid EXCEPT !.monthly = @ \cup {id}]
           ELSE UNCHANGED <<monthly, markPaid>>
        /\ UNCHANGED <<daily, weekly, issued, inflight, page>>

\* The handler reads req.params.period; the route declares :installmentId, so the
\* value it reads is undefined (0) whatever the URL names.
deleteMonthlyInstallmentCode(coll, id, period) ==
    IF id = BadId THEN 400
    ELSE IF period = 0 THEN 400
    ELSE IF id \notin DOMAIN coll THEN 404
    ELSE IF ~Existing(coll[id].installments, period) THEN 404
    ELSE 200

MonthlyInstallmentDeleted(loan, period) ==
    LET updatedInstallments == SelectSeq(loan.installments, LAMBDA inst : inst.period # period)
        collectedAmount == SumPaid(updatedInstallments)
    IN  [loan EXCEPT
            !.installments = updatedInstallments,
            !.collectedAmount = collectedAmount,
            !.remainingAmount = loan.loanAmount - collectedAmount,
            !.status = IF loan.collectedAmount = loan.loanAmount
                          /\ EveryPaid(updatedInstallments)
                       THEN "completed" ELSE "active"]

RouteParamPeriod(installmentId) == 0

deleteMonthlyInstallment(id, installmentId) ==
    LET period == RouteParamPeriod(installmentId)
        code == deleteMonthlyInstallmentCode(monthly, id, period)
    IN  /\ resp' = Response("deleteMonthlyInstallment", id, code)
        /\ IF code = 200
           THEN monthly' = [monthly EXCEPT ![id] = MonthlyInstallmentDeleted(monthly[id], period)]
           ELSE UNCHANGED monthly
        /\ UNCHANGED <<daily, weekly, markPaid, issued, inflight, page>>

deleteMonthlyLoan(id) ==
    LET code == IF id = BadId THEN 400 ELSE IF id \notin DOMAIN monthly THEN 404 ELSE 200
    IN  /\ resp' = Response("deleteMonthlyLoan", id, code)
        /\ IF code = 200
           THEN /\ monthly' = [i \in DOMAIN monthly \ {id} |-> monthly[i]]
                /\ markPaid' = [markPaid EXCEPT !.monthly = @ \ {id}]
           ELSE UNCHANGED <<monthly, markPaid>>
        /\ UNCHANGED <<daily, weekly, issued, inflight, page>>

(***************************************************************************)
(* Weekly ledger                                                           *)
(***************************************************************************)
weeklyLoanData(b) ==
    [loanAmount |-> b.totalLoanAmount,
     amountGiven |-> b.amountGiven,
     interestAmount |-> b.interestAmount,
     profitAmount |-> b.interestAmount,
     collectedAmount |-> 0,
     remainingAmount |-> b.totalLoanAmount,
     installments |-> <<>>,
     status |-> "active"]

\* weeklySchema: installmentPeriodInDays is required, min 1, max 365; the other
\* required paths are set by every record the controller builds.
WeeklySchemaValid(doc) ==
    /\ "installmentPeriodInDays" \in DOMAIN doc
    /\ doc.installmentPeriodInDays >= 1
    /\ doc.installmentPeriodInDays <= 365

\* Weekly.create rejects the record (a ValidationError, re-thrown as 500) when it
\* does not satisfy the schema.
createWeeklyLoan(b) ==
    /\ LoanIds \ DOMAIN weekly # {}
    /\ IF createLoanValidation(b) # 0
       THEN /\ resp' = CreateResponse("createWeeklyLoan", BadId, createLoanValidation(b), b)
            /\ UNCHANGED <<weekly, markPaid>>
       ELSE IF ~WeeklySchemaValid(weeklyLoanData(b))
       THEN /\ resp' = CreateResponse("createWeeklyLoan", BadId, 500, b)
            /\ UNCHANGED <<weekly, markPaid>>
       ELSE LET id == NewId(weekly)
            IN  /\ weekly' = [i \in DOMAIN weekly \cup {id} |->
                                 IF i = id THEN weeklyLoanData(b) ELSE weekly[i]]
                /\ markPaid' = [markPaid EXCEPT !.weekly = @ \ {id}]
                /\ resp' = CreateResponse("createWeeklyLoan", id, 201, b)
    /\ UNCHANGED <<daily, monthly, issued, inflight, page>>

\* newInstallmentsCount: the entries whose period is not stored
NewInstallmentsCount(stored, body) ==
    Cardinality({i \in 1..Len(body) : ~Existing(stored, body[i].period)})

\* isMarkedAsPaid = weeklyLoan.collectedAmount === weeklyLoan.loanAmount
WeeklyIsMarkedAsPaid(loan) == loan.collectedAmount = loan.loanAmount

\* totalProfitAmount: the base interest plus the paid installments
WeeklyProfit(loan, list) == loan.interestAmount + SumPaid(list)

\* a collected amount recomputed from the paid installments, as the Monthly plan does
WeeklyCollectedRecomputed(loan, list) == SumPaid(list)

\* collectedAmount = weeklyLoan.collectedAmount
WeeklyCollected(loan, list) == loan.collectedAmount

\* remainingAmount = weeklyLoan.remainingAmount
WeeklyRemaining(loan, list) == loan.remainingAmount

\* a status that does not look at the periods the call appended
WeeklyStatusNoReopen(loan, body, list) ==
    IF WeeklyIsMarkedAsPaid(loan) /\ EveryPaid(list) THEN "completed" ELSE "active"

\* loanStatus: active when an installment was added, else completed iff marked as
\* paid and every installment paid
WeeklyStatus(loan, body, list) ==
    IF NewInstallmentsCount(loan.installments, body) > 0 THEN "active"
    ELSE IF WeeklyIsMarkedAsPaid(loan) /\ EveryPaid(list) THEN "completed"
    ELSE "active"

\* the document updateWeeklyInstallment writes for a stored loan and valid entries
WeeklyReconciled(loan, body) ==
    LET updatedInstallments == LoanUpdatedInstallments(loan.installments, body)
    IN  [loan EXCEPT
            !.installments = updatedInstallments,
            !.profitAmount = WeeklyProfit(loan, updatedInstallments),
            !.collectedAmount = WeeklyCollected(loan, updatedInstallments),
            !.remainingAmount = WeeklyRemaining(loan, updatedInstallments),
            !.status = WeeklyStatus(loan, body, updatedInstallments)]

updateWeeklyInstallment(id, body) ==
    LET code == updateLoanInstallmentCode(weekly, id, body)
    IN  /\ IF code = 200
           THEN /\ weekly' = [weekly EXCEPT ![id] = WeeklyReconciled(weekly[id], body)]
                /\ resp' = UpdateResponse("updateWeeklyInstallment", id, code,
                                weekly[id].installments, weekly'[id].installments)
           ELSE /\ resp' = Response("updateWeeklyInstallment", id, code)
                /\ UNCHANGED weekly
        /\ UNCHANGED <<daily, monthly, markPaid, issued, inflight, page>>

\* the document markWeeklyLoanAsPaid writes
WeeklyMarkedPaid(loan) ==
    [loan EXCEPT
        !.collectedAmount = loan.loanAmount,
        !.remainingAmount = 0,
        !.status = IF loan.loanAmount = loan.loanAmount /\ EveryPaid(loan.installments)
                   THEN "completed" ELSE "active"]

markWeeklyLoanAsPaid(id) ==
    LET code == markLoanAsPaidCode(weekly, id)
    IN  /\ resp' = Response("markWeeklyLoanAsPaid", id, code)
        /\ IF code = 200
           THEN /\ weekly' = [weekly EXCEPT ![id] = WeeklyMarkedPaid(weekly[id])]
                /\ markPaid' = [markPaid EXCEPT !.weekly = @ \cup {id}]
           ELSE UNCHANGED <<weekly, markPaid>>
        /\ UNCHANGED <<daily, monthly, issued, inflight, page>>

\* the catch block of deleteWeeklyLoan re-throws its own 400 and 404 as 500
deleteWeeklyLoan(id) ==
    LET code == IF id = BadId THEN 500 ELSE IF id \notin DOMAIN weekly THEN 500 ELSE 200
    IN  /\ resp' = Response("deleteWeeklyLoan", id, code)
        /\ IF code = 200
           THEN /\ weekly' = [i \in DOMAIN weekly \ {id} |-> weekly[i]]
                /\ markPaid' = [markPaid EXCEPT !.weekly = @ \ {id}]
           ELSE UNCHANGED <<weekly, markPaid>>
        /\ UNCHANGED <<daily, monthly, issued, inflight, page>>

\* A Weekly document as a deployment holds it: the record createWeeklyLoan builds
\* from the base request, with the installmentPeriodInDays the schema requires.
WeeklyStored ==
    [loanAmount |-> LoanBase.totalLoanAmount,
     amountGiven |-> LoanBase.amountGiven,
     interestAmount |-> LoanBase.interestAmount,
     installmentPeriodInDays |-> 7,
     profitAmount |-> LoanBase.interestAmount,
     collectedAmount |-> 0,
     remainingAmount |-> LoanBase.totalLoanAmount,
     installments |-> <<>>,
     status |-> "active"]

NoLoans == [i \in {} |-> 0]

\* useState(null), useState(new Set()), useState(false): no detail page has loaded
NoPage ==
    [plan |-> "none", id |-> BadId, loan |-> [installments |-> <<>>], fetched |-> <<>>,
     selectedInstallments |-> {}, updating |-> FALSE, request |-> <<>>,
     shown |-> [installments |-> <<>>], notification |-> "none"]

Init ==
    /\ daily = NoLoans
    /\ monthly = NoLoans
    /\ weekly = NoLoans
    /\ markPaid = [monthly |-> {}, weekly |-> {}]
    /\ issued = [daily |-> 0, monthly |-> 0]
    /\ inflight = <<>>
    /\ page = NoPage
    /\ resp = Response("none", BadId, 0)

\* The ledger specifications follow one document at a time: every handler
\* reads and writes only the document its id names.
NextDaily ==
    \/ \E b \in DailyCreateBodies : DOMAIN daily = {} /\ createDailyLoan(b)
    \/ \E id \in DOMAIN daily, body \in DailyBodies : updateDailyInstallment(id, body)
    \/ \E id \in DOMAIN daily : deleteDailyLoan(id)

SpecDaily == Init /\ [][NextDaily]_vars

NextMonthly ==
    \/ \E b \in LoanCreateBodies : DOMAIN monthly = {} /\ createMonthlyLoan(b)
    \/ \E id \in DOMAIN monthly, body \in LoanBodies : updateMonthlyInstallment(id, body)
    \/ \E id \in DOMAIN monthly :
            /\ monthly[id].collectedAmount + monthly[id].loanAmount <= MaxCollected
            /\ markMonthlyLoanAsPaid(id)
    \/ \E id \in DOMAIN monthly, installmentId \in 1..MaxPeriod :
            deleteMonthlyInstallment(id, installmentId)
    \/ \E id \in DOMAIN monthly : deleteMonthlyLoan(id)

SpecMonthly == Init /\ [][NextMonthly]_vars

\* The Weekly collection of a deployment: createWeeklyLoan cannot fill it (the
\* record it builds lacks installmentPeriodInDays), so the Weekly ledger starts
\* from a collection that already holds a document.
InitWeekly ==
    /\ daily = NoLoans
    /\ monthly = NoLoans
    /\ weekly = [i \in {1} |-> WeeklyStored]
    /\ markPaid = [monthly |-> {}, weekly |-> {}]
    /\ issued = [daily |-> 0, monthly |-> 0]
    /\ inflight = <<>>
    /\ page = NoPage
    /\ resp = Response("none", BadId, 0)

NextWeekly ==
    \/ \E b \in LoanCreateBodies : DOMAIN weekly = {} /\ createWeeklyLoan(b)
    \/ \E id \in DOMAIN weekly, body \in LoanBodies : updateWeeklyInstallment(id, body)
    \/ \E id \in DOMAIN weekly : markWeeklyLoanAsPaid(id)
    \/ \E id \in DOMAIN weekly : deleteWeeklyLoan(id)

SpecWeekly == InitWeekly /\ [][NextWeekly]_vars

\* The three ledgers together.  A request of one plan reads and writes only that
\* plan's collection, so the ledgers are followed one at a time.
InitLedgers == Init \/ InitWeekly

Next ==
    \/ monthly = NoLoans /\ weekly = NoLoans /\ NextDaily
    \/ daily = NoLoans /\ weekly = NoLoans /\ NextMonthly
    \/ daily = NoLoans /\ monthly = NoLoans /\ NextWeekly

Spec == InitLedgers /\ [][Next]_vars

(***************************************************************************)
(* Requests by id.  A request names any id: the id of a stored document, a *)
(* well-formed id that resolves to no document, or a malformed id.  The    *)
(* bodies are one accepted list and the lists of one malformed entry.      *)
(***************************************************************************)
RequestIds == LoanIds \cup {BadId}

DailyLookupBodies == {<<DailyPaid1>>} \cup {<<e>> : e \in DailyBadEntries}

LoanLookupBodies == {<<LoanPaid1>>} \cup {<<e>> : e \in LoanBadEntries}

NextLookupDaily ==
    \/ \E b \in DailyCreateBodies : DOMAIN daily = {} /\ createDailyLoan(b)
    \/ \E id \in RequestIds, body \in DailyLookupBodies : updateDailyInstallment(id, body)
    \/ \E id \in RequestIds : deleteDailyLoan(id)

NextLookupMonthly ==
    \/ \E b \in LoanCreateBodies : DOMAIN monthly = {} /\ createMonthlyLoan(b)
    \/ \E id \in RequestIds, body \in LoanLookupBodies : updateMonthlyInstallment(id, body)
    \/ \E id \in RequestIds :
            /\ id \in DOMAIN monthly =>
                    monthly[id].collectedAmount + monthly[id].loanAmount <= MaxCollected
            /\ markMonthlyLoanAsPaid(id)
    \/ \E id \in RequestIds, installmentId \in 1..MaxPeriod :
            deleteMonthlyInstallment(id, installmentId)
    \/ \E id \in RequestIds : deleteMonthlyLoan(id)

NextLookupWeekly ==
    \/ \E b \in LoanCreateBodies : DOMAIN weekly = {} /\ createWeeklyLoan(b)
    \/ \E id \in RequestIds, body \in LoanLookupBodies : updateWeeklyInstallment(id, body)
    \/ \E id \in RequestIds : markWeeklyLoanAsPaid(id)
    \/ \E id \in RequestIds : deleteWeeklyLoan(id)

NextLookup ==
    \/ monthly = NoLoans /\ weekly = NoLoans /\ NextLookupDaily
    \/ daily = NoLoans /\ weekly = NoLoans /\ NextLookupMonthly
    \/ daily = NoLoans /\ monthly = NoLoans /\ NextLookupWeekly

SpecLookup == InitLedgers /\ [][NextLookup]_vars

(***************************************************************************)
(* Sequential creations.  Creation requests are served one after another   *)
(* and nothing is deleted; the Daily requests are those of one day or      *)
(* less.  The Weekly plan has no loan number.                              *)
(***************************************************************************)
DailySingleDayBodies == {b \in DailyCreateBodies : b.numberOfDays <= 1}

NextCreations ==
    \/ monthly = NoLoans /\ \E b \in DailySingleDayBodies : createDailyLoan(b)
    \/ daily = NoLoans /\ \E b \in LoanCreateBodies : createMonthlyLoan(b)

SpecCreations == Init /\ [][NextCreations]_vars

(***************************************************************************)
(* Creations and deletions, one after another.  A creation is followed     *)
(* while the number it would assign is at most MaxLoans + 1.               *)
(***************************************************************************)
NextTurnoverDaily ==
    \/ \E b \in DailySingleDayBodies :
            getNextLoanNumber(daily) <= MaxLoans + 1 /\ createDailyLoan(b)
    \/ \E id \in DOMAIN daily : deleteDailyLoan(id)

NextTurnoverMonthly ==
    \/ \E b \in LoanCreateBodies :
            getNextLoanNumber(monthly) <= MaxLoans + 1 /\ createMonthlyLoan(b)
    \/ \E id \in DOMAIN monthly : deleteMonthlyLoan(id)

NextTurnover ==
    \/ monthly = NoLoans /\ NextTurnoverDaily
    \/ daily = NoLoans /\ NextTurnoverMonthly

SpecTurnover == Init /\ [][NextTurnover]_vars

(***************************************************************************)
(* Interleaved requests.  A handler reads the database at one await and    *)
(* writes it at a later one; between the two, other requests run.  A       *)
(* request that has read is kept in inflight with what it read: the loan   *)
(* number for a creation, the document for a reconciliation or a           *)
(* mark-paid.  Any request in flight may write next.                       *)
(***************************************************************************)
Remove(q, k) == [i \in 1..(Len(q) - 1) |-> IF i < k THEN q[i] ELSE q[i + 1]]

\* The response of a reconciliation that wrote, with the request body it answers.
WriteResponse(op, id, code, old, new, body) ==
    [op |-> op, id |-> id, code |-> code, reverted |-> Reverted(old, new), body |-> body]

\* a collection without a unique index on loanNumber
NoUniqueIndex(coll, loanNumber) == FALSE

\* loanNumber: { unique: true }: the insert of a document whose loanNumber is
\* stored fails with the duplicate key error 11000
DuplicateKey(coll, loanNumber) == \E i \in DOMAIN coll : coll[i].loanNumber = loanNumber

\* createDailyLoan up to the end of await getNextLoanNumber("daily")
createDailyLoanRead(b) ==
    /\ Len(inflight) < MaxInflight
    /\ IF createDailyLoanValidation(b) # 0
       THEN /\ resp' = CreateResponse("createDailyLoan", BadId, createDailyLoanValidation(b), b)
            /\ UNCHANGED inflight
       ELSE /\ inflight' = Append(inflight,
                    [op |-> "createDailyLoan", body |-> b,
                     loanNumber |-> getNextLoanNumber(daily)])
            /\ UNCHANGED resp
    /\ UNCHANGED <<daily, monthly, weekly, markPaid, issued, page>>

\* createDailyLoan from Daily.create on: error code 11000 is answered 409
createDailyLoanInsert(k) ==
    LET r == inflight[k]
    IN  /\ r.op = "createDailyLoan"
        /\ LoanIds \ DOMAIN daily # {}
        /\ IF DuplicateKey(daily, r.loanNumber)
           THEN /\ resp' = CreateResponse("createDailyLoan", BadId, 409, r.body)
                /\ UNCHANGED <<daily, issued>>
           ELSE LET id == NewId(daily)
                IN  /\ daily' = [i \in DOMAIN daily \cup {id} |->
                                    IF i = id THEN dailyLoanData(r.body, r.loanNumber)
                                    ELSE daily[i]]
                    /\ issued' = [issued EXCEPT !.daily = Max(@, r.loanNumber)]
                    /\ resp' = CreateResponse("createDailyLoan", id, 201, r.body)
        /\ inflight' = Remove(inflight, k)
        /\ UNCHANGED <<monthly, weekly, markPaid, page>>

\* createMonthlyLoan up to the end of await getNextLoanNumber("monthly")
createMonthlyLoanRead(b) ==
    /\ Len(inflight) < MaxInflight
    /\ IF createLoanValidation(b) # 0
       THEN /\ resp' = CreateResponse("createMonthlyLoan", BadId, createLoanValidation(b), b)
            /\ UNCHANGED inflight
       ELSE /\ inflight' = Append(inflight,
                    [op |-> "createMonthlyLoan", body |-> b,
                     loanNumber |-> getNextLoanNumber(monthly)])
            /\ UNCHANGED resp
    /\ UNCHANGED <<daily, monthly, weekly, markPaid, issued, page>>

\* createMonthlyLoan from Monthly.create on
createMonthlyLoanInsert(k) ==
    LET r == inflight[k]
    IN  /\ r.op = "createMonthlyLoan"
        /\ LoanIds \ DOMAIN monthly # {}
        /\ IF DuplicateKey(monthly, r.loanNumber)
           THEN /\ resp' = CreateResponse("createMonthlyLoan", BadId, 409, r.body)
                /\ UNCHANGED <<monthly, markPaid, issued>>
           ELSE LET id == NewId(monthly)
                IN  /\ monthly' = [i \in DOMAIN monthly \cup {id} |->
                                      IF i = id THEN monthlyLoanData(r.body, r.loanNumber)
                                      ELSE monthly[i]]
                    /\ markPaid' = [markPaid EXCEPT !.monthly = @ \ {id}]
                    /\ issued' = [issued EXCEPT !.monthly = Max(@, r.loanNumber)]
                    /\ resp' = CreateResponse("createMonthlyLoan", id, 201, r.body)
        /\ inflight' = Remove(inflight, k)
        /\ UNCHANGED <<daily, weekly, page>>

\* updateDailyInstallment up to the call of Daily.findByIdAndUpdate: the read of
\* the loan and the validation of the entries
updateDailyInstallmentRead(id, body) ==
    LET code == updateDailyInstallmentCode(daily, id, body)
    IN  /\ Len(inflight) < MaxInflight
        /\ IF code = 200
           THEN /\ inflight' = Append(inflight,
                        [op |-> "updateDailyInstallment", id |-> id, body |-> body,
                         loan |-> daily[id]])
                /\ UNCHANGED resp
           ELSE /\ resp' = Response("updateDailyInstallment", id, code)
                /\ UNCHANGED inflight
        /\ UNCHANGED <<daily, monthly, weekly, markPaid, issued, page>>

\* a write that applies the request to the document stored at the time of the write
DailyWrittenMerged(current, r) == DailyReconciled(current, r.body)

\* Daily.findByIdAndUpdate(id, {installments, collectedAmount, remainingAmount,
\* totalProfit, status}): the values computed from the document that was read
DailyWritten(current, r) ==
    LET computed == DailyReconciled(r.loan, r.body)
    IN  [current EXCEPT
            !.installments = computed.installments,
            !.collectedAmount = computed.collectedAmount,
            !.remainingAmount = computed.remainingAmount,
            !.totalProfit = computed.totalProfit,
            !.status = computed.status]

updateDailyInstallmentWrite(k) ==
    LET r == inflight[k]
    IN  /\ r.op = "updateDailyInstallment"
        /\ daily' = [daily EXCEPT ![r.id] = DailyWritten(daily[r.id], r)]
        /\ resp' = WriteResponse(r.op, r.id, 200,
                        daily[r.id].installments, daily'[r.id].installments, r.body)
        /\ inflight' = Remove(inflight, k)
        /\ UNCHANGED <<monthly, weekly, markPaid, issued, page>>

\* updateMonthlyInstallment up to the call of Monthly.findByIdAndUpdate
updateMonthlyInstallmentRead(id, body) ==
    LET code == updateLoanInstallmentCode(monthly, id, body)
    IN  /\ Len(inflight) < MaxInflight
        /\ IF code = 200
           THEN /\ inflight' = Append(inflight,
                        [op |-> "updateMonthlyInstallment", id |-> id, body |-> body,
                         loan |-> monthly[id]])
                /\ UNCHANGED resp
           ELSE /\ resp' = Response("updateMonthlyInstallment", id, code)
                /\ UNCHANGED inflight
        /\ UNCHANGED <<daily, monthly, weekly, markPaid, issued, page>>

\* Monthly.findByIdAndUpdate(id, {installments, profitAmount, collectedAmount,
\* remainingAmount, status})
MonthlyWritten(current, r) ==
    LET computed == MonthlyReconciled(r.loan, r.body)
    IN  [current EXCEPT
            !.installments = computed.installments,
            !.profitAmount = computed.profitAmount,
            !.collectedAmount = computed.collectedAmount,
            !.remainingAmount = computed.remainingAmount,
            !.status = computed.status]

updateMonthlyInstallmentWrite(k) ==
    LET r == inflight[k]
    IN  /\ r.op = "updateMonthlyInstallment"
        /\ monthly' = [monthly EXCEPT ![r.id] = MonthlyWritten(monthly[r.id], r)]
        /\ resp' = WriteResponse(r.op, r.id, 200,
                        monthly[r.id].installments, monthly'[r.id].installments, r.body)
        /\ inflight' = Remove(inflight, k)
        /\ UNCHANGED <<daily, weekly, markPaid, issued, page>>

\* markMonthlyLoanAsPaid up to the call of Monthly.findByIdAndUpdate
markMonthlyLoanAsPaidRead(id) ==
    LET code == markLoanAsPaidCode(monthly, id)
    IN  /\ Len(inflight) < MaxInflight
        /\ IF code = 200
           THEN /\ inflight' = Append(inflight,
                        [op |-> "markMonthlyLoanAsPaid", id |-> id, loan |-> monthly[id]])
                /\ UNCHANGED resp
           ELSE /\ resp' = Response("markMonthlyLoanAsPaid", id, code)
                /\ UNCHANGED inflight
        /\ UNCHANGED <<daily, monthly, weekly, markPaid, issued, page>>

\* Monthly.findByIdAndUpdate(id, {collectedAmount, remainingAmount, status})
MonthlyMarkWritten(current, r) ==
    LET computed == MonthlyMarkedPaid(r.loan)
    IN  [current EXCEPT
            !.collectedAmount = computed.collectedAmount,
            !.remainingAmount = computed.remainingAmount,
            !.status = computed.status]

markMonthlyLoanAsPaidWrite(k) ==
    LET r == inflight[k]
    IN  /\ r.op = "markMonthlyLoanAsPaid"
        /\ monthly' = [monthly EXCEPT ![r.id] = MonthlyMarkWritten(monthly[r.id], r)]
        /\ markPaid' = [markPaid EXCEPT !.monthly = @ \cup {r.id}]
        /\ resp' = Response(r.op, r.id, 200)
        /\ inflight' = Remove(inflight, k)
        /\ UNCHANGED <<daily, weekly, issued, page>>

\* updateWeeklyInstallment up to the call of Weekly.findByIdAndUpdate
updateWeeklyInstallmentRead(id, body) ==
    LET code == updateLoanInstallmentCode(weekly, id, body)
    IN  /\ Len(inflight) < MaxInflight
        /\ IF code = 200
           THEN /\ inflight' = Append(inflight,
                        [op |-> "updateWeeklyInstallment", id |-> id, body |-> body,
                         loan |-> weekly[id]])
                /\ UNCHANGED resp
           ELSE /\ resp' = Response("updateWeeklyInstallment", id, code)
                /\ UNCHANGED inflight
        /\ UNCHANGED <<daily, monthly, weekly, markPaid, issued, page>>

\* Weekly.findByIdAndUpdate(id, {installments, profitAmount, collectedAmount,
\* remainingAmount, status})
WeeklyWritten(current, r) ==
    LET computed == WeeklyReconciled(r.loan, r.body)
    IN  [current EXCEPT
            !.installments = computed.installments,
            !.profitAmount = computed.profitAmount,
            !.collectedAmount = computed.collectedAmount,
            !.remainingAmount = computed.remainingAmount,
            !.status = computed.status]

updateWeeklyInstallmentWrite(k) ==
    LET r == inflight[k]
    IN  /\ r.op = "updateWeeklyInstallment"
        /\ weekly' = [weekly EXCEPT ![r.id] = WeeklyWritten(weekly[r.id], r)]
        /\ resp' = WriteResponse(r.op, r.id, 200,
                        weekly[r.id].installments, weekly'[r.id].installments, r.body)
        /\ inflight' = Remove(inflight, k)
        /\ UNCHANGED <<daily, monthly, markPaid, issued, page>>

\* markWeeklyLoanAsPaid up to the call of Weekly.findByIdAndUpdate
markWeeklyLoanAsPaidRead(id) ==
    LET code == markLoanAsPaidCode(weekly, id)
    IN  /\ Len(inflight) < MaxInflight
        /\ IF code = 200
           THEN /\ inflight' = Append(inflight,
                        [op |-> "markWeeklyLoanAsPaid", id |-> id, loan |-> weekly[id]])
                /\ UNCHANGED resp
           ELSE /\ resp' = Response("markWeeklyLoanAsPaid", id, code)
                /\ UNCHANGED inflight
        /\ UNCHANGED <<daily, monthly, weekly, markPaid, issued, page>>

\* Weekly.findByIdAndUpdate(id, {collectedAmount, remainingAmount, status})
WeeklyMarkWritten(current, r) ==
    LET computed == WeeklyMarkedPaid(r.loan)
    IN  [current EXCEPT
            !.collectedAmount = computed.collectedAmount,
            !.remainingAmount = computed.remainingAmount,
            !.status = computed.status]

markWeeklyLoanAsPaidWrite(k) ==
    LET r == inflight[k]
    IN  /\ r.op = "markWeeklyLoanAsPaid"
        /\ weekly' = [weekly EXCEPT ![r.id] = WeeklyMarkWritten(weekly[r.id], r)]
        /\ markPaid' = [markPaid EXCEPT !.weekly = @ \cup {r.id}]
        /\ resp' = Response(r.op, r.id, 200)
        /\ inflight' = Remove(inflight, k)
        /\ UNCHANGED <<daily, monthly, issued, page>>

\* The requests of the interleaved ledgers: a Daily loan of MaxDays days, and
\* reconciliations of one entry.
DailyRaceCreateBodies ==
    {[DailyBase EXCEPT !.numberOfDays = MaxDays], [DailyBase EXCEPT !.customerName = ""]}

DailyRaceBodies ==
    {<<[period |-> p, status |-> st, paidOn |-> Null]>> : p \in 1..MaxDays, st \in {"paid", "pending"}}
    \cup {<<e>> : e \in DailyBadEntries}

LoanRaceCreateBodies == {LoanBase, [LoanBase EXCEPT !.customerName = ""]}

LoanRaceBodies ==
    {<<[LoanPaid1 EXCEPT !.period = p, !.status = st]>> :
        p \in 1..MaxPeriod, st \in {"paid", "pending"}}
    \cup {<<e>> : e \in LoanBadEntries}

NextInterleavedDaily ==
    \/ \E b \in DailyRaceCreateBodies : DOMAIN daily = {} /\ createDailyLoanRead(b)
    \/ \E k \in 1..Len(inflight) : createDailyLoanInsert(k)
    \/ \E id \in DOMAIN daily, body \in DailyRaceBodies : updateDailyInstallmentRead(id, body)
    \/ \E k \in 1..Len(inflight) : updateDailyInstallmentWrite(k)

NextInterleavedMonthly ==
    \/ \E b \in LoanRaceCreateBodies : DOMAIN monthly = {} /\ createMonthlyLoanRead(b)
    \/ \E k \in 1..Len(inflight) : createMonthlyLoanInsert(k)
    \/ \E id \in DOMAIN monthly, body \in LoanRaceBodies :
            updateMonthlyInstallmentRead(id, body)
    \/ \E k \in 1..Len(inflight) : updateMonthlyInstallmentWrite(k)
    \/ \E id \in DOMAIN monthly :
            /\ monthly[id].collectedAmount + monthly[id].loanAmount <= MaxCollected
            /\ markMonthlyLoanAsPaidRead(id)
    \/ \E k \in 1..Len(inflight) : markMonthlyLoanAsPaidWrite(k)

NextInterleavedWeekly ==
    \/ \E id \in DOMAIN weekly, body \in LoanRaceBodies :
            updateWeeklyInstallmentRead(id, body)
    \/ \E k \in 1..Len(inflight) : updateWeeklyInstallmentWrite(k)
    \/ \E id \in DOMAIN weekly : markWeeklyLoanAsPaidRead(id)
    \/ \E k \in 1..Len(inflight) : markWeeklyLoanAsPaidWrite(k)

NextInterleaved ==
    \/ monthly = NoLoans /\ weekly = NoLoans /\ NextInterleavedDaily
    \/ daily = NoLoans /\ weekly = NoLoans /\ NextInterleavedMonthly
    \/ daily = NoLoans /\ monthly = NoLoans /\ NextInterleavedWeekly

SpecInterleaved == InitLedgers /\ [][NextInterleaved]_vars

(***************************************************************************)
(* The loan detail pages of the browser client.  A handler that awaits the *)
(* server is followed in three steps: the request is sent, the server      *)
(* handles it, the page receives the response (and fetches the loan again). *)
(***************************************************************************)
MonthDays == 30     \* nextDate.setMonth(nextDate.getMonth() + 1), in days

\* the values new Date() takes in the browser: the issuing day, a day after the
\* first Daily due date, and a day after the first Monthly due date
ClientDays == {Today, Today + 2, Today + 2 * MonthDays}

\* the periods of a list of installments
Periods(list) == {list[i].period : i \in 1..Len(list)}

\* fetchDailyLoan: GET /daily/:id and setLoan(data.data); the effect on [loan]
\* empties the selection
fetchDailyLoan(id) ==
    /\ page.plan \in {"none", "daily"}
    /\ page.plan = "daily" => page.id = id
    /\ ~page.updating
    /\ page' = [page EXCEPT !.plan = "daily", !.id = id, !.loan = daily[id],
                            !.fetched = daily[id].installments,
                            !.selectedInstallments = {}]
    /\ UNCHANGED <<daily, monthly, weekly, markPaid, issued, inflight, resp>>

\* handleInstallmentSelect of the Daily page
handleDailyInstallmentSelect(period) ==
    /\ page.plan = "daily"
    /\ ~page.updating
    /\ page' = [page EXCEPT !.selectedInstallments =
                    IF period \in @ THEN @ \ {period} ELSE @ \cup {period}]
    /\ UNCHANGED <<daily, monthly, weekly, markPaid, issued, inflight, resp>>

\* the entry handleInstallmentUpdate of the Daily page pushes for one installment
DailyPageEntry(installment, selected, today) ==
    IF installment.period \in selected
    THEN IF installment.status = "paid"
         THEN [period |-> installment.period,
               status |-> IF installment.date < today THEN "missed" ELSE "pending",
               paidOn |-> Null]
         ELSE [period |-> installment.period, status |-> "paid", paidOn |-> today]
    ELSE [period |-> installment.period,
          status |-> installment.status,
          paidOn |-> IF installment.status = "paid" THEN installment.paidOn ELSE Null]

\* allInstallments: one entry for every installment of the displayed loan
DailyPageInstallments(loan, selected, today) ==
    [i \in 1..Len(loan.installments) |->
        DailyPageEntry(loan.installments[i], selected, today)]

\* handleInstallmentUpdate of the Daily page up to the await of the PATCH
handleDailyInstallmentUpdate(today) ==
    /\ page.plan = "daily"
    /\ ~page.updating
    /\ page.selectedInstallments # {}
    /\ page' = [page EXCEPT !.updating = TRUE, !.shown = page.loan,
                    !.request = DailyPageInstallments(page.loan, page.selectedInstallments, today)]
    /\ resp' = Response("none", BadId, 0)
    /\ UNCHANGED <<daily, monthly, weekly, markPaid, issued, inflight>>

\* handleInstallmentUpdate of the Daily page from the response on: on success
\* fetchDailyLoan and an empty selection, on failure the error notification
handleDailyInstallmentUpdateResponse ==
    /\ page.plan = "daily"
    /\ page.updating
    /\ resp.op = "updateDailyInstallment"
    /\ page' = IF resp.code = 200
               THEN [page EXCEPT !.loan = daily[page.id],
                                 !.fetched = daily[page.id].installments,
                                 !.selectedInstallments = {},
                                 !.notification = "success",
                                 !.updating = FALSE, !.request = <<>>]
               ELSE [page EXCEPT !.notification = "error",
                                 !.updating = FALSE, !.request = <<>>]
    /\ UNCHANGED <<daily, monthly, weekly, markPaid, issued, inflight, resp>>

\* fetchMonthlyLoan: GET /monthly/:id and setLoan(data.data)
fetchMonthlyLoan(id) ==
    /\ page.plan \in {"none", "monthly"}
    /\ page.plan = "monthly" => page.id = id
    /\ ~page.updating
    /\ page' = [page EXCEPT !.plan = "monthly", !.id = id, !.loan = monthly[id],
                            !.fetched = monthly[id].installments,
                            !.selectedInstallments = {}]
    /\ UNCHANGED <<daily, monthly, weekly, markPaid, issued, inflight, resp>>

\* handleInstallmentSelect of the Monthly page
handleMonthlyInstallmentSelect(period) ==
    /\ page.plan = "monthly"
    /\ ~page.updating
    /\ page' = [page EXCEPT !.selectedInstallments =
                    IF period \in @ THEN @ \ {period} ELSE @ \cup {period}]
    /\ UNCHANGED <<daily, monthly, weekly, markPaid, issued, inflight, resp>>

\* a new installment that is shown as paid
MonthlyPageAddedPaid(loan) ==
    [loan EXCEPT !.installments = Append(@,
        [period |-> Len(loan.installments) + 1,
         date |-> MonthDays + (IF Len(loan.installments) > 0
                               THEN loan.installments[Len(loan.installments)].date
                               ELSE loan.issuingDate),
         amount |-> loan.interestAmount,
         status |-> "paid",
         paidOn |-> Null])]

\* updatedLoan of handleAddInstallment: the displayed loan with newInstallment
MonthlyPageAdded(loan) ==
    [loan EXCEPT !.installments = Append(@,
        [period |-> Len(loan.installments) + 1,
         date |-> MonthDays + (IF Len(loan.installments) > 0
                               THEN loan.installments[Len(loan.installments)].date
                               ELSE loan.issuingDate),
         amount |-> loan.interestAmount,
         status |-> "pending",
         paidOn |-> Null])]

\* handleAddInstallment: with an unpaid installment displayed only the info
\* notification, otherwise setLoan(updatedLoan) without a request to the server
handleAddInstallment ==
    /\ page.plan = "monthly"
    /\ ~page.updating
    /\ Len(page.loan.installments) < MaxPeriod
    /\ page' = IF \E i \in 1..Len(page.loan.installments) :
                      page.loan.installments[i].status # "paid"
               THEN [page EXCEPT !.notification = "info"]
               ELSE [page EXCEPT !.loan = MonthlyPageAdded(page.loan),
                                 !.selectedInstallments = {},
                                 !.notification = "success"]
    /\ UNCHANGED <<daily, monthly, weekly, markPaid, issued, inflight, resp>>

\* the entry handleInstallmentUpdate of the Monthly page pushes for one installment
MonthlyPageEntry(installment, selected, today) ==
    IF installment.period \in selected
    THEN IF installment.status = "paid"
         THEN [period |-> installment.period, date |-> installment.date,
               amount |-> installment.amount,
               status |-> IF installment.date < today THEN "missed" ELSE "pending",
               paidOn |-> Null]
         ELSE [period |-> installment.period, date |-> installment.date,
               amount |-> installment.amount, status |-> "paid", paidOn |-> today]
    ELSE [period |-> installment.period, date |-> installment.date,
          amount |-> installment.amount,
          status |-> installment.status,
          paidOn |-> IF installment.status = "paid" THEN installment.paidOn ELSE Null]

MonthlyPageInstallments(loan, selected, today) ==
    [i \in 1..Len(loan.installments) |->
        MonthlyPageEntry(loan.installments[i], selected, today)]

\* handleInstallmentUpdate of the Monthly page up to the await of the PATCH
handleMonthlyInstallmentUpdate(today) ==
    /\ page.plan = "monthly"
    /\ ~page.updating
    /\ page.selectedInstallments # {}
    /\ page' = [page EXCEPT !.updating = TRUE, !.shown = page.loan,
                    !.request = MonthlyPageInstallments(page.loan, page.selectedInstallments, today)]
    /\ resp' = Response("none", BadId, 0)
    /\ UNCHANGED <<daily, monthly, weekly, markPaid, issued, inflight>>

\* handleInstallmentUpdate of the Monthly page from the response on
handleMonthlyInstallmentUpdateResponse ==
    /\ page.plan = "monthly"
    /\ page.updating
    /\ resp.op = "updateMonthlyInstallment"
    /\ page' = IF resp.code = 200
               THEN [page EXCEPT !.loan = monthly[page.id],
                                 !.fetched = monthly[page.id].installments,
                                 !.selectedInstallments = {},
                                 !.notification = "success",
                                 !.updating = FALSE, !.request = <<>>]
               ELSE [page EXCEPT !.notification = "error",
                                 !.updating = FALSE, !.request = <<>>]
    /\ UNCHANGED <<daily, monthly, weekly, markPaid, issued, inflight, resp>>

\* The Daily detail page, its server, and the requests of another client.
NextDailyPage ==
    \/ \E b \in DailyRaceCreateBodies :
            DOMAIN daily = {} /\ page.plan = "none" /\ createDailyLoan(b)
    \/ \E id \in DOMAIN daily : fetchDailyLoan(id)
    \/ \E period \in Periods(page.loan.installments) : handleDailyInstallmentSelect(period)
    \/ \E today \in ClientDays : handleDailyInstallmentUpdate(today)
    \/ /\ page.plan = "daily" /\ page.updating /\ resp.op = "none"
       /\ updateDailyInstallment(page.id, page.request)
    \/ handleDailyInstallmentUpdateResponse
    \/ \E id \in DOMAIN daily, body \in DailyRaceBodies :
            ~page.updating /\ updateDailyInstallment(id, body)

NextMonthlyPage ==
    \/ \E b \in LoanRaceCreateBodies :
            DOMAIN monthly = {} /\ page.plan = "none" /\ createMonthlyLoan(b)
    \/ \E id \in DOMAIN monthly : fetchMonthlyLoan(id)
    \/ \E period \in Periods(page.loan.installments) : handleMonthlyInstallmentSelect(period)
    \/ handleAddInstallment
    \/ \E today \in ClientDays : handleMonthlyInstallmentUpdate(today)
    \/ /\ page.plan = "monthly" /\ page.updating /\ resp.op = "none"
       /\ updateMonthlyInstallment(page.id, page.request)
    \/ handleMonthlyInstallmentUpdateResponse
    \/ \E id \in DOMAIN monthly, body \in LoanRaceBodies :
            ~page.updating /\ updateMonthlyInstallment(id, body)
    \/ \E id \in DOMAIN monthly :
            page.plan = "monthly" /\ ~page.updating /\ deleteMonthlyLoan(id)

NextPages ==
    \/ monthly = NoLoans /\ NextDailyPage
    \/ daily = NoLoans /\ NextMonthlyPage

SpecPages == Init /\ [][NextPages]_vars

(***************************************************************************)
(* The Daily creation form of the browser client.  profitPercentage is     *)
(* held in hundredths of a percent, the precision the form rounds it to.   *)
(***************************************************************************)
\* useState<DailyLoanForm>({...}), and lastChangedField ("" is null)
NewDailyForm ==
    [plan |-> "newDaily",
     formData |-> [customerName |-> "", phoneDigits |-> 0, totalLoanAmount |-> 0,
                   amountGiven |-> 0, profitAmount |-> 0, profitPercentage |-> 0,
                   numberOfDays |-> 0, amountPerDay |-> 0, issuingDate |-> Today],
     lastChangedField |-> "",
     isSubmitting |-> FALSE,
     request |-> [customerName |-> ""],
     left |-> FALSE]

\* Math.round(x / y) for x >= 0, y > 0
RoundDiv(x, y) == (2 * x + y) \div (2 * y)

\* Math.ceil(x / y) for x >= 0, y > 0
CeilDiv(x, y) == (x + y - 1) \div y

\* One render of the form: the effects whose dependencies changed since the
\* previous render, each queueing the value it computed from this render.
FormEffects(prev, cur) ==
    LET f == cur.formData
        g == prev.formData
        percentage == (g.profitAmount # f.profitAmount \/ g.totalLoanAmount # f.totalLoanAmount)
                      /\ f.profitAmount > 0 /\ f.totalLoanAmount > 0
        amount == (g.profitPercentage # f.profitPercentage \/ g.totalLoanAmount # f.totalLoanAmount)
                  /\ f.profitPercentage > 0 /\ f.totalLoanAmount > 0
        given == (g.totalLoanAmount # f.totalLoanAmount \/ g.profitAmount # f.profitAmount)
                 /\ f.totalLoanAmount > 0 /\ f.profitAmount > 0
        perDay == (g.totalLoanAmount # f.totalLoanAmount \/ g.numberOfDays # f.numberOfDays
                      \/ prev.lastChangedField # cur.lastChangedField)
                  /\ f.totalLoanAmount > 0 /\ f.numberOfDays > 0
                  /\ cur.lastChangedField = "numberOfDays"
        days == (g.totalLoanAmount # f.totalLoanAmount \/ g.amountPerDay # f.amountPerDay
                    \/ prev.lastChangedField # cur.lastChangedField)
                /\ f.totalLoanAmount > 0 /\ f.amountPerDay > 0
                /\ cur.lastChangedField = "amountPerDay"
    IN  [cur EXCEPT
            !.formData.profitPercentage =
                IF percentage THEN RoundDiv(f.profitAmount * 10000, f.totalLoanAmount) ELSE @,
            !.formData.profitAmount =
                IF amount THEN RoundDiv(f.totalLoanAmount * f.profitPercentage, 10000) ELSE @,
            !.formData.amountGiven =
                IF given THEN f.totalLoanAmount - f.profitAmount ELSE @,
            !.formData.amountPerDay =
                IF perDay THEN CeilDiv(f.totalLoanAmount, f.numberOfDays) ELSE @,
            !.formData.numberOfDays =
                IF days THEN CeilDiv(f.totalLoanAmount, f.amountPerDay) ELSE @,
            !.lastChangedField = IF perDay \/ days THEN "" ELSE @]

RECURSIVE FormRendered(_, _)
\* the renders that follow a change, until no effect changes the form
FormRendered(prev, cur) ==
    LET next == FormEffects(prev, cur)
    IN  IF next = cur THEN cur ELSE FormRendered(cur, next)

\* the state handleInputChange sets
FormChanged(form, field, value) ==
    IF field = "totalLoanAmount"
    THEN [form EXCEPT !.lastChangedField = field,
                      !.formData = [@ EXCEPT !.totalLoanAmount = value,
                                             !.amountGiven = 0, !.profitAmount = 0,
                                             !.profitPercentage = 0, !.numberOfDays = 0,
                                             !.amountPerDay = 0]]
    ELSE [form EXCEPT !.lastChangedField = field, !.formData[field] = value]

\* isDaysFieldsEnabled
IsDaysFieldsEnabled(f) ==
    f.totalLoanAmount > 0 /\ f.profitAmount > 0 /\ f.profitPercentage > 0

handleInputChange(field, value) ==
    /\ page.plan = "newDaily"
    /\ ~page.isSubmitting /\ ~page.left
    /\ field \in {"numberOfDays", "amountPerDay"} => IsDaysFieldsEnabled(page.formData)
    /\ page' = FormRendered(page, FormChanged(page, field, value))
    /\ UNCHANGED <<daily, monthly, weekly, markPaid, issued, inflight, resp>>

\* String.prototype.trim on the names the form is given
Trim(name) == IF name = " " THEN "" ELSE name

\* validateForm: TRUE when newErrors stays empty
validateForm(f) ==
    /\ Trim(f.customerName) # ""
    /\ f.phoneDigits # 0 => f.phoneDigits = 10
    /\ ~(f.totalLoanAmount <= 0)
    /\ ~(f.amountGiven <= 0)
    /\ ~(f.profitAmount <= 0)
    /\ ~(f.numberOfDays <= 0)
    /\ ~(f.amountPerDay <= 0)
    /\ (f.amountPerDay > 0 /\ f.numberOfDays > 0 /\ f.totalLoanAmount > 0) =>
            ~(f.amountPerDay * f.numberOfDays - f.totalLoanAmount < 0)
    /\ f.issuingDate # 0

\* loanData of handleSubmit: the fields of CreateDailyLoanRequest
loanData(f) ==
    [customerName |-> f.customerName,
     phoneDigits |-> f.phoneDigits,
     totalLoanAmount |-> f.totalLoanAmount,
     amountGiven |-> f.amountGiven,
     profitAmount |-> f.profitAmount,
     profitPercentage |-> f.profitPercentage,
     numberOfDays |-> f.numberOfDays,
     amountPerDay |-> f.amountPerDay,
     issuingDate |-> f.issuingDate]

\* a field of req.body: undefined when the request does not carry it
BodyField(body, field, undefined) ==
    IF field \in DOMAIN body THEN body[field] ELSE undefined

\* const { customerName, phoneNumber, ... } = req.body in createDailyLoan
createDailyLoanBody(body) ==
    [customerName |-> BodyField(body, "customerName", ""),
     phoneDigits |-> BodyField(body, "phoneDigits", 0),
     amountGiven |-> BodyField(body, "amountGiven", 0),
     expectedProfit |-> BodyField(body, "expectedProfit", 0),
     profitPercentage |-> BodyField(body, "profitPercentage", 0),
     totalLoanAmount |-> BodyField(body, "totalLoanAmount", 0),
     numberOfDays |-> BodyField(body, "numberOfDays", 0),
     amountPerDay |-> BodyField(body, "amountPerDay", 0),
     issuingDate |-> BodyField(body, "issuingDate", 0)]

\* handleSubmit up to the await of the POST: without errors the request is sent
handleSubmit ==
    /\ page.plan = "newDaily"
    /\ ~page.isSubmitting /\ ~page.left
    /\ IF validateForm(page.formData)
       THEN /\ page' = [page EXCEPT !.isSubmitting = TRUE,
                                    !.request = loanData(page.formData)]
            /\ resp' = Response("none", BadId, 0)
       ELSE UNCHANGED <<page, resp>>
    /\ UNCHANGED <<daily, monthly, weekly, markPaid, issued, inflight>>

\* handleSubmit from the response on: router.push when the response is ok
handleSubmitResponse ==
    /\ page.plan = "newDaily"
    /\ page.isSubmitting
    /\ resp.op = "createDailyLoan"
    /\ page' = [page EXCEPT !.isSubmitting = FALSE, !.left = (resp.code = 201)]
    /\ UNCHANGED <<daily, monthly, weekly, markPaid, issued, inflight, resp>>

\* The values typed into the form.
FormNames == {" ", "n"}

FormNumbers == {-1, 1, 2}

FormPercentages == {0, 5000}

InitForm ==
    /\ daily = NoLoans
    /\ monthly = NoLoans
    /\ weekly = NoLoans
    /\ markPaid = [monthly |-> {}, weekly |-> {}]
    /\ issued = [daily |-> 0, monthly |-> 0]
    /\ inflight = <<>>
    /\ page = NewDailyForm
    /\ resp = Response("none", BadId, 0)

NextForm ==
    \/ \E name \in FormNames : handleInputChange("customerName", name)
    \/ \E digits \in {9, 10} : handleInputChange("phoneDigits", digits)
    \/ \E field \in {"totalLoanAmount", "profitAmount", "numberOfDays", "amountPerDay"},
          value \in FormNumbers : handleInputChange(field, value)
    \/ \E value \in FormPercentages : handleInputChange("profitPercentage", value)
    \/ \E date \in {0, Today} : handleInputChange("issuingDate", date)
    \/ handleSubmit
    \/ /\ page.isSubmitting /\ resp.op = "none"
       /\ createDailyLoan(createDailyLoanBody(page.request))
    \/ handleSubmitResponse

SpecForm == InitForm /\ [][NextForm]_vars

(***************************************************************************)
(* Properties                                                              *)
(***************************************************************************)
RECURSIVE PaidTotalFrom(_, _)
PaidTotalFrom(list, i) ==
    IF i > Len(list) THEN 0
    ELSE (IF list[i].status = "paid" THEN list[i].amount ELSE 0) + PaidTotalFrom(list, i + 1)

\* the sum of amount over the installments of a list whose status is paid
PaidTotal(list) == PaidTotalFrom(list, 1)

AfterUpdate(op) == resp.op = op /\ resp.code = 200

\* C1: after a successful updateDailyInstallment, the stored collectedAmount of
\* the loan equals the sum of amount over its stored installments with status paid.
DailyCollectedIsPaidTotal ==
    AfterUpdate("updateDailyInstallment") =>
        daily[resp.id].collectedAmount = PaidTotal(daily[resp.id].installments)

\* C1 witness: a reconciliation has left a loan with a paid and a pending installment.
DailyPartlyPaid ==
    /\ AfterUpdate("updateDailyInstallment")
    /\ daily[resp.id].collectedAmount > 0
    /\ \E i \in 1..Len(daily[resp.id].installments) :
            daily[resp.id].installments[i].status = "pending"

\* C2: every stored Daily loan has remainingAmount = loanAmount - collectedAmount,
\* and its status is completed exactly when remainingAmount <= 0.
DailyRemainingAndStatus ==
    \A id \in DOMAIN daily :
        /\ daily[id].remainingAmount = daily[id].loanAmount - daily[id].collectedAmount
        /\ daily[id].status = "completed" <=> daily[id].remainingAmount <= 0

DailyAggregate(loan) ==
    [collectedAmount |-> loan.collectedAmount,
     remainingAmount |-> loan.remainingAmount,
     totalProfit |-> loan.totalProfit,
     status |-> loan.status,
     statuses |-> [i \in 1..Len(loan.installments) |-> loan.installments[i].status]]

\* C3: for every stored Daily loan and every request body the reconciliation
\* accepts, reconciling with the body a second time leaves collectedAmount,
\* remainingAmount, totalProfit, the loan status and the installment statuses
\* as the first reconciliation left them.
DailyReconcileIdempotent ==
    \A id \in DOMAIN daily, body \in DailyBodies :
        updateDailyInstallmentCode(daily, id, body) = 200 =>
            LET once == DailyReconciled(daily[id], body)
                twice == DailyReconciled(once, body)
            IN  DailyAggregate(twice) = DailyAggregate(once)

\* C3 witness: a loan with collected money on which a reconciliation has acted
\* and for which some accepted body changes the aggregate state.
DailyReconcileChanges ==
    /\ AfterUpdate("updateDailyInstallment")
    /\ daily[resp.id].collectedAmount > 0
    /\ \E body \in DailyBodies :
            /\ updateDailyInstallmentCode(daily, resp.id, body) = 200
            /\ DailyAggregate(DailyReconciled(daily[resp.id], body))
                    # DailyAggregate(daily[resp.id])

AllInstallments ==
    {daily[id].installments : id \in DOMAIN daily}
    \cup {monthly[id].installments : id \in DOMAIN monthly}
    \cup {weekly[id].installments : id \in DOMAIN weekly}

\* C4: in every stored loan of every plan, an installment has a non-null paidOn
\* exactly when its status is paid.
PaidOnIffPaid ==
    \A list \in AllInstallments : \A i \in 1..Len(list) :
        list[i].paidOn # Null <=> list[i].status = "paid"

\* C5: in every stored loan of every plan, the periods of the installments are
\* pairwise distinct.
PeriodsDistinct ==
    \A list \in AllInstallments : \A i, j \in 1..Len(list) :
        i # j => list[i].period # list[j].period

\* C6: after a successful updateMonthlyInstallment the loan is completed exactly
\* when mark-paid has succeeded on it before and every installment is paid.
MonthlyCompletedIffMarkedAndPaid ==
    AfterUpdate("updateMonthlyInstallment") =>
        (monthly[resp.id].status = "completed" <=>
            (resp.id \in markPaid.monthly /\ EveryPaid(monthly[resp.id].installments)))

\* C7: the collectedAmount of every stored Monthly loan is the sum of its paid
\* installments, plus loanAmount once if mark-paid has succeeded on it.
MonthlyCollectedIsPaidPlusPrincipal ==
    \A id \in DOMAIN monthly :
        monthly[id].collectedAmount =
            PaidTotal(monthly[id].installments)
            + (IF id \in markPaid.monthly THEN monthly[id].loanAmount ELSE 0)

\* C8 as stated: no successful Weekly or Monthly reconciliation lowers collectedAmount.
CollectedNeverLowered ==
    [][/\ (resp'.op = "updateWeeklyInstallment" /\ resp'.code = 200) =>
            weekly'[resp'.id].collectedAmount >= weekly[resp'.id].collectedAmount
       /\ (resp'.op = "updateMonthlyInstallment" /\ resp'.code = 200) =>
            monthly'[resp'.id].collectedAmount >= monthly[resp'.id].collectedAmount]_vars

\* C8 amended: no successful Weekly reconciliation, including one that turns a
\* paid installment into a pending or missed one, lowers collectedAmount.
WeeklyCollectedNeverLowered ==
    [][(resp'.op = "updateWeeklyInstallment" /\ resp'.code = 200) =>
            weekly'[resp'.id].collectedAmount >= weekly[resp'.id].collectedAmount]_vars

\* C8 witness: a Weekly reconciliation has turned a paid installment of a loan
\* with collected money into one that is not paid.
WeeklyRevertedWithCollected ==
    /\ AfterUpdate("updateWeeklyInstallment")
    /\ resp.reverted
    /\ weekly[resp.id].collectedAmount > 0

\* C9: after a successful Weekly or Monthly reconciliation, profitAmount is
\* interestAmount plus the sum of the paid installments of the stored list.
ProfitIsInterestPlusPaid ==
    /\ AfterUpdate("updateMonthlyInstallment") =>
            monthly[resp.id].profitAmount =
                monthly[resp.id].interestAmount + PaidTotal(monthly[resp.id].installments)
    /\ AfterUpdate("updateWeeklyInstallment") =>
            weekly[resp.id].profitAmount =
                weekly[resp.id].interestAmount + PaidTotal(weekly[resp.id].installments)

\* C9 witness: the example of the specification scaled to interestAmount 1 and
\* one installment of 1, paid: profitAmount 2, remainingAmount still loanAmount.
MonthlyExampleProfit ==
    /\ AfterUpdate("updateMonthlyInstallment")
    /\ monthly[resp.id].interestAmount = 1
    /\ Len(monthly[resp.id].installments) = 1
    /\ monthly[resp.id].installments[1].status = "paid"
    /\ monthly[resp.id].installments[1].amount = 1
    /\ monthly[resp.id].profitAmount = 2
    /\ monthly[resp.id].remainingAmount = monthly[resp.id].loanAmount

\* C10: a step that changes the remainingAmount of a stored Weekly or Monthly
\* loan is a mark-paid, and a Weekly reconciliation changes neither
\* collectedAmount nor remainingAmount.
RemainingChangesOnlyByMarkPaid ==
    [][/\ \A id \in DOMAIN monthly \cap DOMAIN monthly' :
            monthly'[id].remainingAmount # monthly[id].remainingAmount =>
                resp' = Response("markMonthlyLoanAsPaid", id, 200)
       /\ \A id \in DOMAIN weekly \cap DOMAIN weekly' :
            weekly'[id].remainingAmount # weekly[id].remainingAmount =>
                resp' = Response("markWeeklyLoanAsPaid", id, 200)
       /\ resp'.op = "updateWeeklyInstallment" =>
            \A id \in DOMAIN weekly :
                weekly'[id].collectedAmount = weekly[id].collectedAmount]_vars

\* C10 witness: a Monthly reconciliation has stored paid installments and the
\* whole loan amount is still remaining.
MonthlyPaidButRemaining ==
    /\ AfterUpdate("updateMonthlyInstallment")
    /\ PaidTotal(monthly[resp.id].installments) > 0
    /\ monthly[resp.id].remainingAmount = monthly[resp.id].loanAmount

\* C11: a successful Weekly reconciliation that stores a period the loan did not
\* hold before leaves the loan active; one that stores no such period leaves it
\* completed exactly when mark-paid has succeeded on the loan and every
\* installment of the stored list is paid.
WeeklyStatusAfterReconcile ==
    [][(resp'.op = "updateWeeklyInstallment" /\ resp'.code = 200) =>
            LET before == weekly[resp'.id]
                after == weekly'[resp'.id]
            IN  IF Periods(after.installments) \ Periods(before.installments) # {}
                THEN after.status = "active"
                ELSE after.status = "completed" <=>
                        (resp'.id \in markPaid.weekly /\ EveryPaid(after.installments))]_vars

\* C11 witness: a Weekly reconciliation has left active a loan on which mark-paid
\* has succeeded and whose installments are all paid: the call appended a period.
WeeklyReopened ==
    /\ AfterUpdate("updateWeeklyInstallment")
    /\ resp.id \in markPaid.weekly
    /\ weekly[resp.id].installments # <<>>
    /\ EveryPaid(weekly[resp.id].installments)
    /\ weekly[resp.id].status = "active"

\* C12: a successful mark-paid sets remainingAmount to 0 and collectedAmount to
\* loanAmount (Weekly) or to the previous collectedAmount plus loanAmount
\* (Monthly), leaves installments and profitAmount as they were, and sets status
\* to completed if every stored installment is paid and to active otherwise.
MarkPaidEffect ==
    [][/\ \A id \in DOMAIN monthly :
            resp' = Response("markMonthlyLoanAsPaid", id, 200) =>
                /\ monthly'[id].remainingAmount = 0
                /\ monthly'[id].collectedAmount =
                        monthly[id].collectedAmount + monthly[id].loanAmount
                /\ monthly'[id].installments = monthly[id].installments
                /\ monthly'[id].profitAmount = monthly[id].profitAmount
                /\ monthly'[id].status =
                        IF \A i \in 1..Len(monthly[id].installments) :
                                monthly[id].installments[i].status = "paid"
                        THEN "completed" ELSE "active"
       /\ \A id \in DOMAIN weekly :
            resp' = Response("markWeeklyLoanAsPaid", id, 200) =>
                /\ weekly'[id].remainingAmount = 0
                /\ weekly'[id].collectedAmount = weekly[id].loanAmount
                /\ weekly'[id].installments = weekly[id].installments
                /\ weekly'[id].profitAmount = weekly[id].profitAmount
                /\ weekly'[id].status =
                        IF \A i \in 1..Len(weekly[id].installments) :
                                weekly[id].installments[i].status = "paid"
                        THEN "completed" ELSE "active"]_vars

\* C12 witness: mark-paid has succeeded on a Monthly loan that holds a paid and
\* an unpaid installment: the principal is settled on top of the collected
\* installment and the loan stays active.
MonthlySettledButActive ==
    /\ resp.op = "markMonthlyLoanAsPaid" /\ resp.code = 200
    /\ monthly[resp.id].remainingAmount = 0
    /\ monthly[resp.id].collectedAmount > monthly[resp.id].loanAmount
    /\ monthly[resp.id].status = "active"

\* C13: a mark-paid on a Weekly or Monthly loan whose status is completed ends
\* with code 400 and leaves the collection as it was.
MarkPaidOnCompletedRejected ==
    [][/\ \A id \in DOMAIN monthly :
            (/\ resp'.op = "markMonthlyLoanAsPaid"
             /\ resp'.id = id
             /\ monthly[id].status = "completed") =>
                resp'.code = 400 /\ monthly' = monthly
       /\ \A id \in DOMAIN weekly :
            (/\ resp'.op = "markWeeklyLoanAsPaid"
             /\ resp'.id = id
             /\ weekly[id].status = "completed") =>
                resp'.code = 400 /\ weekly' = weekly]_vars

\* C13 witness: a mark-paid on a completed Monthly loan with installments has
\* been answered 400.
MonthlyCompletedMarkedAgain ==
    /\ resp.op = "markMonthlyLoanAsPaid" /\ resp.code = 400
    /\ resp.id \in DOMAIN monthly
    /\ monthly[resp.id].status = "completed"
    /\ monthly[resp.id].installments # <<>>

\* C14: a delete or a reconciliation request of any plan whose well-formed id
\* resolves to no stored loan ends with code 404 and leaves the collection as
\* it was.
UnknownIdIsNotFound ==
    [][/\ \A id \in LoanIds \ DOMAIN daily :
            (resp'.op \in {"deleteDailyLoan", "updateDailyInstallment"} /\ resp'.id = id) =>
                resp'.code = 404 /\ daily' = daily
       /\ \A id \in LoanIds \ DOMAIN monthly :
            (resp'.op \in {"deleteMonthlyLoan", "updateMonthlyInstallment"} /\ resp'.id = id) =>
                resp'.code = 404 /\ monthly' = monthly
       /\ \A id \in LoanIds \ DOMAIN weekly :
            (resp'.op \in {"deleteWeeklyLoan", "updateWeeklyInstallment"} /\ resp'.id = id) =>
                resp'.code = 404 /\ weekly' = weekly]_vars

\* a list with an entry whose period is missing, whose status is missing, or
\* whose status is outside the allowed set
HasMalformedEntry(body, allowed) ==
    \E i \in 1..Len(body) :
        body[i].period = 0 \/ body[i].status = "" \/ body[i].status \notin allowed

\* C15: a reconciliation of any plan whose list holds an entry with a missing
\* period, a missing status or a status outside the plan's set, at any position,
\* ends with code 400 and leaves the stored loan as it was.
MalformedEntryRejected ==
    [][/\ \A id \in DOMAIN daily, body \in DailyBodies :
            (HasMalformedEntry(body, {"paid", "pending"})
                /\ updateDailyInstallment(id, body)) =>
                    resp'.code = 400 /\ daily' = daily
       /\ \A id \in DOMAIN monthly, body \in LoanBodies :
            (HasMalformedEntry(body, {"paid", "missed", "pending"})
                /\ updateMonthlyInstallment(id, body)) =>
                    resp'.code = 400 /\ monthly' = monthly
       /\ \A id \in DOMAIN weekly, body \in LoanBodies :
            (HasMalformedEntry(body, {"paid", "missed", "pending"})
                /\ updateWeeklyInstallment(id, body)) =>
                    resp'.code = 400 /\ weekly' = weekly]_vars

\* C16: after a successful Daily creation the stored loan holds one installment
\* for each period of 1..numberOfDays, in order, each with amount amountPerDay,
\* status pending and paidOn null, and has collectedAmount 0, remainingAmount
\* totalLoanAmount, totalProfit 0 and status active.
DailyCreatedAsRequested ==
    (resp.op = "createDailyLoan" /\ resp.code = 201) =>
        LET loan == daily[resp.id]
            b == resp.body
        IN  /\ DOMAIN loan.installments = 1..b.numberOfDays
            /\ \A i \in 1..b.numberOfDays :
                    /\ loan.installments[i].period = i
                    /\ loan.installments[i].amount = b.amountPerDay
                    /\ loan.installments[i].status = "pending"
                    /\ loan.installments[i].paidOn = Null
            /\ loan.collectedAmount = 0
            /\ loan.remainingAmount = b.totalLoanAmount
            /\ loan.totalProfit = 0
            /\ loan.status = "active"

\* C16 witness: a Daily loan of several days at amountPerDay 2 has been created.
DailyCreatedSeveralDays ==
    /\ resp.op = "createDailyLoan" /\ resp.code = 201
    /\ resp.body.numberOfDays > 1
    /\ resp.body.amountPerDay = 2
    /\ Len(daily[resp.id].installments) = resp.body.numberOfDays

\* C17: a Daily creation request whose expectedProfit, amountPerDay or
\* numberOfDays is zero or negative ends with code 400 and leaves the
\* collection as it was.
DailyNonPositiveRejected ==
    [][(/\ resp'.op = "createDailyLoan"
        /\ \/ resp'.body.expectedProfit <= 0
           \/ resp'.body.amountPerDay <= 0
           \/ resp'.body.numberOfDays <= 0) =>
            resp'.code = 400 /\ daily' = daily]_vars

\* a Weekly/Monthly creation request whose name, issuing date and phone number
\* are valid
LoanOtherFieldsValid(b) ==
    /\ b.customerName # ""
    /\ b.issuingDate > 0
    /\ b.phoneDigits = 0 \/ b.phoneDigits >= 10

\* C18: a Weekly or Monthly creation request whose other fields are valid is
\* answered 400 exactly when amountGiven <= 0, totalLoanAmount <= 0,
\* interestAmount < 0 or interestPercentage < 0.
LoanNumericValidationExact ==
    (resp.op \in {"createMonthlyLoan", "createWeeklyLoan"}
        /\ LoanOtherFieldsValid(resp.body)) =>
            (resp.code = 400 <=>
                \/ resp.body.amountGiven <= 0
                \/ resp.body.totalLoanAmount <= 0
                \/ resp.body.interestAmount < 0
                \/ resp.body.interestPercentage < 0)

\* C19: a Weekly or Monthly creation request that passes the validation of the
\* controller is answered 201 and stored with no installments, profitAmount
\* interestAmount, collectedAmount 0, remainingAmount totalLoanAmount and
\* status active.
LoanCreatedWhenValidated ==
    /\ (resp.op = "createMonthlyLoan" /\ createLoanValidation(resp.body) = 0) =>
            /\ resp.code = 201
            /\ monthly[resp.id].installments = <<>>
            /\ monthly[resp.id].profitAmount = resp.body.interestAmount
            /\ monthly[resp.id].collectedAmount = 0
            /\ monthly[resp.id].remainingAmount = resp.body.totalLoanAmount
            /\ monthly[resp.id].status = "active"
    /\ (resp.op = "createWeeklyLoan" /\ createLoanValidation(resp.body) = 0) =>
            /\ resp.code = 201
            /\ weekly[resp.id].installments = <<>>
            /\ weekly[resp.id].profitAmount = resp.body.interestAmount
            /\ weekly[resp.id].collectedAmount = 0
            /\ weekly[resp.id].remainingAmount = resp.body.totalLoanAmount
            /\ weekly[resp.id].status = "active"

\* the loan numbers a collection holds
LoanNumbers(coll) == {coll[i].loanNumber : i \in DOMAIN coll}

\* C20: when creations are served one after another from an empty collection
\* and nothing is deleted, the N stored Daily (Monthly) loans hold the numbers
\* 1..N, and the loan a successful creation has just stored holds the number N.
SequentialLoanNumbers ==
    /\ LoanNumbers(daily) = 1..Cardinality(DOMAIN daily)
    /\ LoanNumbers(monthly) = 1..Cardinality(DOMAIN monthly)
    /\ (resp.op = "createDailyLoan" /\ resp.code = 201) =>
            daily[resp.id].loanNumber = Cardinality(DOMAIN daily)
    /\ (resp.op = "createMonthlyLoan" /\ resp.code = 201) =>
            monthly[resp.id].loanNumber = Cardinality(DOMAIN monthly)

\* C20 witness: a third Daily loan has been created.
ThreeDailyLoansCreated ==
    /\ resp.op = "createDailyLoan" /\ resp.code = 201
    /\ Cardinality(DOMAIN daily) >= 3
    /\ daily[resp.id].loanNumber = 3

\* the periods a request body names
Named(body) == {body[i].period : i \in 1..Len(body)}

\* C22: for every stored Daily loan and every request body the reconciliation
\* accepts, the list it writes has the installments of the stored list, each
\* with its period, date and amount, and the status and paidOn of every
\* installment whose period the body does not name; a named period that is not
\* stored adds nothing.
DailyReconcileFrame ==
    \A id \in DOMAIN daily, body \in DailyBodies :
        updateDailyInstallmentCode(daily, id, body) = 200 =>
            LET old == daily[id].installments
                new == DailyReconciled(daily[id], body).installments
            IN  /\ Len(new) = Len(old)
                /\ \A i \in 1..Len(old) :
                        /\ new[i].period = old[i].period
                        /\ new[i].date = old[i].date
                        /\ new[i].amount = old[i].amount
                        /\ old[i].period \notin Named(body) =>
                                /\ new[i].status = old[i].status
                                /\ new[i].paidOn = old[i].paidOn

\* C22 witness: a reconciliation has left a loan with a paid installment, and
\* an accepted body that names another stored period and a period that is not
\* stored, but not the paid one, changes the stored list.
DailyPaidAndOthersNamed ==
    /\ AfterUpdate("updateDailyInstallment")
    /\ \E i \in 1..Len(daily[resp.id].installments), body \in DailyBodies :
            /\ daily[resp.id].installments[i].status = "paid"
            /\ updateDailyInstallmentCode(daily, resp.id, body) = 200
            /\ daily[resp.id].installments[i].period \notin Named(body)
            /\ \E p \in Named(body) : p > Len(daily[resp.id].installments)
            /\ DailyReconciled(daily[resp.id], body).installments
                    # daily[resp.id].installments

\* C27: every stored Weekly or Monthly loan whose status is completed has
\* remainingAmount 0.
CompletedHasNothingRemaining ==
    /\ \A id \in DOMAIN monthly :
            monthly[id].status = "completed" => monthly[id].remainingAmount = 0
    /\ \A id \in DOMAIN weekly :
            weekly[id].status = "completed" => weekly[id].remainingAmount = 0

\* C30: a DELETE of /monthly/:id/installments/:installmentId on a stored loan
\* that holds an installment of that period ends with code 200, removes the
\* installments of that period and no other, and writes collectedAmount as the
\* paid total of the list left and remainingAmount as loanAmount less that
\* total; when no installment has that period it ends with code 404.
InstallmentDeletedByPeriod ==
    [][\A id \in DOMAIN monthly, installmentId \in 1..MaxPeriod :
            deleteMonthlyInstallment(id, installmentId) =>
                LET old == monthly[id].installments
                    left == SelectSeq(old, LAMBDA inst : inst.period # installmentId)
                IN  IF \E i \in 1..Len(old) : old[i].period = installmentId
                    THEN /\ resp'.code = 200
                         /\ monthly'[id].installments = left
                         /\ monthly'[id].collectedAmount = PaidTotal(left)
                         /\ monthly'[id].remainingAmount =
                                monthly[id].loanAmount - PaidTotal(left)
                    ELSE resp'.code = 404 /\ monthly' = monthly]_vars

\* C21: the loanNumber a successful Daily or Monthly creation assigns is greater
\* than every loanNumber assigned to an earlier loan of the plan, deleted or not.
LoanNumbersNeverReused ==
    [][/\ (resp'.op = "createDailyLoan" /\ resp'.code = 201 /\ daily' # daily) =>
            daily'[resp'.id].loanNumber > issued.daily
       /\ (resp'.op = "createMonthlyLoan" /\ resp'.code = 201 /\ monthly' # monthly) =>
            monthly'[resp'.id].loanNumber > issued.monthly]_vars

\* C25: in every stored Weekly or Monthly loan, also when a mark-paid and a
\* reconciliation of the loan interleave, status completed implies that every
\* stored installment is paid.
CompletedHasAllPaid ==
    /\ \A id \in DOMAIN monthly :
            monthly[id].status = "completed" =>
                \A i \in 1..Len(monthly[id].installments) :
                    monthly[id].installments[i].status = "paid"
    /\ \A id \in DOMAIN weekly :
            weekly[id].status = "completed" =>
                \A i \in 1..Len(weekly[id].installments) :
                    weekly[id].installments[i].status = "paid"

\* C23 (as stated): the insert of every creation in flight is answered 201 and
\* stores a loan with the loan number the creation read, also when a stored
\* loan of the plan already has that number.
InsertStoresNumberRead ==
    [][\A k \in 1..Len(inflight) :
          /\ (createDailyLoanInsert(k) =>
                 /\ resp'.code = 201
                 /\ \E id \in DOMAIN daily' \ DOMAIN daily :
                        daily'[id].loanNumber = inflight[k].loanNumber)
          /\ (createMonthlyLoanInsert(k) =>
                 /\ resp'.code = 201
                 /\ \E id \in DOMAIN monthly' \ DOMAIN monthly :
                        monthly'[id].loanNumber = inflight[k].loanNumber)]_vars

\* C23 (amended): two creations in flight can hold the same loan number, and
\* the stored loans of a plan never share a loan number.
StoredLoanNumbersDistinct ==
    /\ \A i, j \in DOMAIN daily :
            daily[i].loanNumber = daily[j].loanNumber => i = j
    /\ \A i, j \in DOMAIN monthly :
            monthly[i].loanNumber = monthly[j].loanNumber => i = j

\* two creations read the same number, one was stored, the other answered 409
SecondCreationRejected ==
    /\ resp.code = 409
    /\ resp.op \in {"createDailyLoan", "createMonthlyLoan"}
    /\ inflight = <<>>
    /\ \/ \E id \in DOMAIN daily : daily[id].loanNumber = 1
       \/ \E id \in DOMAIN monthly : monthly[id].loanNumber = 1

\* C24: when a reconciliation writes, it is answered 200 and the stored
\* installment list and aggregates become those computed from the loan the
\* request read and its own entries alone, whatever was written to the loan
\* since the read: the changes of an earlier writer are absent.
LaterWriterAlone ==
    [][\A k \in 1..Len(inflight) :
          LET r == inflight[k]
          IN  /\ (updateDailyInstallmentWrite(k) =>
                     LET computed == DailyReconciled(r.loan, r.body)
                     IN  /\ resp'.code = 200
                         /\ daily'[r.id].installments = computed.installments
                         /\ daily'[r.id].collectedAmount =
                                PaidTotal(daily'[r.id].installments)
                         /\ \A i \in 1..Len(r.loan.installments) :
                                daily'[r.id].installments[i].status =
                                    IF HasUpdate(r.body, r.loan.installments[i].period)
                                    THEN LastUpdate(r.body, r.loan.installments[i].period).status
                                    ELSE r.loan.installments[i].status)
              /\ (updateMonthlyInstallmentWrite(k) =>
                     LET computed == MonthlyReconciled(r.loan, r.body)
                     IN  /\ resp'.code = 200
                         /\ monthly'[r.id].installments = computed.installments
                         /\ monthly'[r.id].collectedAmount = computed.collectedAmount
                         /\ monthly'[r.id].remainingAmount = computed.remainingAmount
                         /\ monthly'[r.id].status = computed.status)]_vars

\* the later writer marked an installment paid and its write turned another
\* installment, which the earlier writer had marked paid, back to pending
EarlierWriterLost ==
    /\ resp.op = "updateDailyInstallment"
    /\ resp.code = 200
    /\ "body" \in DOMAIN resp
    /\ \A i \in 1..Len(resp.body) : resp.body[i].status = "paid"
    /\ resp.reverted

\* C28: every entry of every installment list the Daily detail page submits
\* passes the per-entry validation of updateDailyInstallment, and has a status
\* the Daily schema allows.
DailyPageSubmitsValidEntries ==
    (page.plan = "daily" /\ page.updating) =>
        \A i \in 1..Len(page.request) :
            /\ DailyEntryValid(page.request[i])
            /\ page.request[i].status \in {"paid", "pending"}

\* the update request of the page has been answered with an error
UpdateFailed ==
    /\ resp.code # 200
    /\ handleDailyInstallmentUpdateResponse \/ handleMonthlyInstallmentUpdateResponse

\* C26 (as stated): on the Daily and Monthly detail pages the displayed
\* installment list is always the list last fetched from the server, and after a
\* failed update request the displayed loan is the one shown before the request.
DisplayedIsLastFetched ==
    [][/\ page'.loan.installments = page'.fetched
       /\ UpdateFailed => page'.loan = page.shown]_vars

\* the displayed list is the fetched list followed by one pending installment
\* with the next period
OneInstallmentAdded(displayed, fetched) ==
    /\ Len(displayed) = Len(fetched) + 1
    /\ SubSeq(displayed, 1, Len(fetched)) = fetched
    /\ displayed[Len(displayed)].status = "pending"
    /\ displayed[Len(displayed)].period = Len(displayed)
    /\ \A i \in 1..Len(fetched) : fetched[i].status = "paid"

\* C26 (amended): on the Daily page the displayed installment list is always the
\* list last fetched; on the Monthly page it is that list, or that list with
\* every installment paid followed by the one pending installment that
\* handleAddInstallment added locally; after a failed update request the
\* displayed loan is the one shown before the request.
DisplayedIsFetchedOrAdded ==
    [][/\ page'.plan = "daily" => page'.loan.installments = page'.fetched
       /\ page'.plan = "monthly" =>
             \/ page'.loan.installments = page'.fetched
             \/ OneInstallmentAdded(page'.loan.installments, page'.fetched)
       /\ UpdateFailed => page'.loan = page.shown]_vars

\* an update of the Monthly page has failed while a locally added installment
\* is displayed
AddedShownAfterFailure ==
    /\ page.plan = "monthly"
    /\ page.notification = "error"
    /\ ~page.updating
    /\ page.loan = page.shown
    /\ Len(page.loan.installments) = Len(page.fetched) + 1

\* C29: every request the Daily creation form has sent after validateForm
\* succeeded carries every field createDailyLoan requires, and is not answered
\* 400.
FormRequestHasRequiredFields ==
    (page.plan = "newDaily" /\ page.isSubmitting) =>
        LET b == createDailyLoanBody(page.request)
        IN  /\ b.customerName # ""
            /\ b.amountGiven # 0
            /\ b.expectedProfit # 0
            /\ b.profitPercentage # 0
            /\ b.totalLoanAmount # 0
            /\ b.numberOfDays # 0
            /\ b.amountPerDay # 0
            /\ b.issuingDate # 0
            /\ resp.op = "createDailyLoan" => resp.code # 400

====
